---- MODULE Spec2Model ----
(***************************************************************************)
(* Conversation-state and intent-resolution core of the Clarity PPM chat   *)
(* proxy: the ContextService (conversation store), the follow-up intent    *)
(* classifier and the AIChatHandler (plan generator and executor).         *)
(*                                                                         *)
(* Text is a sequence of one-character strings, so that toLowerCase() and  *)
(* includes() are computed and not assumed.  An optional value (a field    *)
(* that may be undefined or null) is a sequence of length 0 or 1.          *)
(***************************************************************************)
EXTENDS Integers, Sequences, FiniteSets, TLC

VARIABLES
    contexts,     \* ContextService.contexts: sessionId -> optional context
    now,          \* the clock, Date.now(), in milliseconds
    handler,      \* AIChatHandler: discoveredObjects and its metadata cache
    metadataService, \* MetadataService: its discovery, label and metadata caches
    client,       \* ClarityApiClient: the request it is carrying out
    toolRegistry, \* ToolRegistry: sessionPermissions and clarityCapabilities
    sessionManager, \* SessionManager: sessionMetadata
    inflight,     \* handleMessage calls suspended at their data fetch
    heap,         \* the objects of the ContextService, by reference
    used,         \* how much of each bound the run has used
    last          \* the last operation: its arguments, result and effects

vars == <<contexts, now, handler, metadataService, client, toolRegistry, sessionManager,
          inflight, heap, used, last>>

----------------------------------------------------------------------------
\* Bounds of the model.

\* Turns appended to one session in the history specification.
MaxAppends == 22
\* Clock advances in the expiry specification.
MaxTicks == 3
\* Turns appended, over all sessions, in the expiry specification.
MaxTurns == 3

Sessions == {"s1", "s2"}

----------------------------------------------------------------------------
\* Optional values and text.

None == << >>
Some(v) == <<v>>
IsSome(o) == Len(o) > 0
Get(o) == o[1]

Min(a, b) == IF a < b THEN a ELSE b

\* const name = value; ...: the value is computed once, and Body reads it by name.
With(value, Body(_)) == Body(value)

UpperCase == <<"A", "B", "C", "D", "E", "F", "G", "H", "I", "J", "K", "L", "M",
               "N", "O", "P", "Q", "R", "S", "T", "U", "V", "W", "X", "Y", "Z">>
LowerCase == <<"a", "b", "c", "d", "e", "f", "g", "h", "i", "j", "k", "l", "m",
               "n", "o", "p", "q", "r", "s", "t", "u", "v", "w", "x", "y", "z">>
UpperLetters == {UpperCase[i] : i \in 1..26}
LowerLetters == {LowerCase[i] : i \in 1..26}
LowerOf == [c \in UpperLetters |-> LowerCase[CHOOSE i \in 1..26 : UpperCase[i] = c]]
UpperOf == [c \in LowerLetters |-> UpperCase[CHOOSE i \in 1..26 : LowerCase[i] = c]]

\* String.prototype.toLowerCase on one character
LowerChar(c) == IF c \in UpperLetters THEN LowerOf[c] ELSE c

RECURSIVE ToLower(_)
\* String.prototype.toLowerCase
ToLower(t) == IF Len(t) = 0 THEN << >> ELSE <<LowerChar(t[1])>> \o ToLower(Tail(t))

\* String.prototype.includes
Includes(hay, needle) ==
    \/ Len(needle) = 0
    \/ \E i \in 1..(Len(hay) - Len(needle) + 1) :
          hay[i] = needle[1] /\ SubSeq(hay, i, i + Len(needle) - 1) = needle

\* Array.prototype.slice(-n)
SliceLast(seq, n) == SubSeq(seq, Len(seq) - Min(n, Len(seq)) + 1, Len(seq))
\* Array.prototype.slice(0, n)
SliceFirst(seq, n) == SubSeq(seq, 1, Min(n, Len(seq)))

Digit(d) ==
    CASE d = 0 -> "0" [] d = 1 -> "1" [] d = 2 -> "2" [] d = 3 -> "3" [] d = 4 -> "4"
      [] d = 5 -> "5" [] d = 6 -> "6" [] d = 7 -> "7" [] d = 8 -> "8" [] d = 9 -> "9"

RECURSIVE Numeral(_)
\* String(n) for a natural number
Numeral(n) == IF n < 10 THEN <<Digit(n)>> ELSE Numeral(n \div 10) \o <<Digit(n % 10)>>

----------------------------------------------------------------------------
\* ContextService: the conversation store.

MAX_HISTORY_LENGTH == 20
MinuteMs == 60 * 1000
CONTEXT_EXPIRY_MS == 30 * 60 * 1000

\* Date.now() of a running server is far more than 30 minutes after the epoch.
StartTime == 1000 * CONTEXT_EXPIRY_MS

\* new Date().toISOString() keeps the milliseconds; new Date(iso).getTime() reads them back.
ToISOString(ms) == [iso |-> ms]
GetTime(ts) == ts.iso

\* A ConversationTurn without its optional fields.
Turn(ts, role, message) ==
    [timestamp |-> ts, role |-> role, message |-> message,
     action |-> None, objectType |-> None, success |-> None]

createNewContext(sessionId) ==
    [sessionId |-> sessionId, history |-> << >>, lastQuery |-> None,
     currentPage |-> None, preferences |-> None]

\* The store after getContext(sessionId): the entry is created when absent.
getContextStore(store, sessionId) ==
    IF IsSome(store[sessionId]) THEN store
    ELSE [store EXCEPT ![sessionId] = Some(createNewContext(sessionId))]

\* The context getContext(sessionId) returns.
getContext(store, sessionId) == Get(getContextStore(store, sessionId)[sessionId])

TrimHistory_keepOldest(history) ==
    IF Len(history) > MAX_HISTORY_LENGTH THEN SliceFirst(history, MAX_HISTORY_LENGTH)
    ELSE history

\* addToHistory, lines 70-73: keep the last MAX_HISTORY_LENGTH turns
TrimHistory(history) ==
    IF Len(history) > MAX_HISTORY_LENGTH THEN SliceLast(history, MAX_HISTORY_LENGTH)
    ELSE history

\* The store after addToHistory(sessionId, turn).
addToHistory(store, sessionId, turn) ==
    LET context == getContext(store, sessionId)
        pushed == Append(context.history, turn)
    IN  [store EXCEPT ![sessionId] = Some([context EXCEPT !.history = TrimHistory(pushed)])]

\* The store after updateLastQuery(sessionId, query).
updateLastQuery(store, sessionId, query) ==
    LET context == getContext(store, sessionId)
    IN  [store EXCEPT ![sessionId] = Some([context EXCEPT !.lastQuery = Some(query)])]

\* The store after setCurrentPage(sessionId, page).
setCurrentPage(store, sessionId, page) ==
    LET context == getContext(store, sessionId)
    IN  [store EXCEPT ![sessionId] = Some([context EXCEPT !.currentPage = Some(page)])]

\* { ...context.preferences, ...preferences }: a key of the second wins.
MergePreferences(old, preferences) ==
    LET base == IF IsSome(old) THEN Get(old)
                ELSE [preferredChartType |-> None, language |-> None, detailLevel |-> None]
    IN  [k \in DOMAIN base |-> IF IsSome(preferences[k]) THEN preferences[k] ELSE base[k]]

\* The store after updatePreferences(sessionId, preferences).
updatePreferences(store, sessionId, preferences) ==
    LET context == getContext(store, sessionId)
    IN  [store EXCEPT ![sessionId] =
            Some([context EXCEPT !.preferences =
                      Some(MergePreferences(context.preferences, preferences))])]

\* The store after clearContext(sessionId).
clearContext(store, sessionId) == [store EXCEPT ![sessionId] = None]

\* cleanupExpiredContexts, lines 197-199
LastActivity(context) ==
    IF Len(context.history) > 0
    THEN GetTime(context.history[Len(context.history)].timestamp)
    ELSE 0

IsExpired_atThirtyMinutes(context, t) == t - LastActivity(context) >= CONTEXT_EXPIRY_MS

\* cleanupExpiredContexts, line 201
IsExpired(context, t) == t - LastActivity(context) > CONTEXT_EXPIRY_MS

\* The store after cleanupExpiredContexts() at time t.
cleanupExpiredContexts(store, t) ==
    [s \in Sessions |->
        IF IsSome(store[s]) /\ IsExpired(Get(store[s]), t) THEN None ELSE store[s]]


----------------------------------------------------------------------------
\* More text and list helpers.

StartsWith(t, p) == Len(t) >= Len(p) /\ SubSeq(t, 1, Len(p)) = p
InSeq(seq, x) == \E i \in 1..Len(seq) : seq[i] = x
RECURSIVE IndexFrom(_, _, _)
\* The first index, from position i on and counted from 0, at which seq holds x.
IndexFrom(seq, x, i) ==
    IF i > Len(seq) THEN 0 - 1
    ELSE IF seq[i] = x THEN i - 1
    ELSE IndexFrom(seq, x, i + 1)

\* Array.prototype.indexOf
IndexOf(seq, x) == IndexFrom(seq, x, 1)

RECURSIVE Join(_, _)
\* Array.prototype.join
Join(texts, sep) ==
    IF Len(texts) = 0 THEN << >>
    ELSE IF Len(texts) = 1 THEN texts[1]
    ELSE texts[1] \o sep \o Join(Tail(texts), sep)

RECURSIVE Flatten(_)
\* The concatenation of a list of texts (a loop of reply += ...).
Flatten(texts) == IF Len(texts) = 0 THEN << >> ELSE texts[1] \o Flatten(Tail(texts))

\* String.prototype.substring(0, n)
Substring(t, n) == SubSeq(t, 1, Min(n, Len(t)))

\* s.charAt(0).toUpperCase() + s.slice(1)
UpperChar(c) == IF c \in LowerLetters THEN UpperOf[c] ELSE c
Capitalize(t) == IF Len(t) = 0 THEN t ELSE <<UpperChar(t[1])>> \o Tail(t)

Letters == LowerCase
Digits == <<"0", "1", "2", "3", "4", "5", "6", "7", "8", "9">>
IsLetter(c) == InSeq(Letters, LowerChar(c))
IsDigit(c) == InSeq(Digits, c)
IsUpper(c) == LowerChar(c) # c

\* The primary collation weight of a character: white space, then punctuation,
\* then digits, then letters without regard to case.
CollationWeight(c) ==
    IF c = " " THEN 1
    ELSE IF IsDigit(c) THEN 10 + IndexOf(Digits, c)
    ELSE IF IsLetter(c) THEN 20 + IndexOf(Letters, LowerChar(c))
    ELSE 2

RECURSIVE ComparePrimary(_, _)
ComparePrimary(a, b) ==
    IF Len(a) = 0 /\ Len(b) = 0 THEN 0
    ELSE IF Len(a) = 0 THEN 0 - 1
    ELSE IF Len(b) = 0 THEN 1
    ELSE IF a[1] = b[1] THEN ComparePrimary(Tail(a), Tail(b))
    ELSE LET wa == CollationWeight(a[1])
             wb == CollationWeight(b[1])
         IN  IF wa < wb THEN 0 - 1
             ELSE IF wa > wb THEN 1
             ELSE ComparePrimary(Tail(a), Tail(b))

RECURSIVE CompareCase(_, _)
\* Texts equal at the primary level: lower case sorts before upper case.
CompareCase(a, b) ==
    IF Len(a) = 0 \/ Len(b) = 0 THEN 0
    ELSE IF ~IsUpper(a[1]) /\ IsUpper(b[1]) THEN 0 - 1
    ELSE IF IsUpper(a[1]) /\ ~IsUpper(b[1]) THEN 1
    ELSE CompareCase(Tail(a), Tail(b))

\* String.prototype.localeCompare in the default locale, for the characters
\* display names are made of (letters, digits, blanks, punctuation).
LocaleCompare(a, b) ==
    LET primary == ComparePrimary(a, b)
    IN  IF primary # 0 THEN primary ELSE CompareCase(a, b)

----------------------------------------------------------------------------
\* constants.ts

CACHE_TTL_DISCOVERED_OBJECTS == 60 * 60 * 1000

STANDARD_OBJECTS ==
    << <<"p", "r", "o", "j", "e", "c", "t", "s">>, <<"t", "a", "s", "k", "s">>, <<"r", "e", "s", "o", "u", "r", "c", "e", "s">>, <<"i", "d", "e", "a", "s">>, <<"r", "i", "s", "k", "s">>, <<"i", "s", "s", "u", "e", "s">>,
       <<"t", "i", "m", "e", "s", "h", "e", "e", "t", "s">>, <<"a", "s", "s", "i", "g", "n", "m", "e", "n", "t", "s">>, <<"i", "n", "v", "e", "s", "t", "m", "e", "n", "t", "s">>, <<"c", "o", "s", "t", "P", "l", "a", "n", "s">>,
       <<"b", "e", "n", "e", "f", "i", "t", "P", "l", "a", "n", "s">>, <<"b", "u", "d", "g", "e", "t", "P", "l", "a", "n", "s">> >>

PRIORITY_FIELDS ==
    << <<"s", "t", "a", "t", "u", "s">>, <<"n", "a", "m", "e">>, <<"c", "o", "d", "e">>, <<"m", "a", "n", "a", "g", "e", "r">>, <<"o", "w", "n", "e", "r">>, <<"p", "r", "i", "o", "r", "i", "t", "y">>,
       <<"d", "e", "p", "a", "r", "t", "m", "e", "n", "t">>, <<"s", "t", "a", "r", "t", "D", "a", "t", "e">>, <<"f", "i", "n", "i", "s", "h", "D", "a", "t", "e">>, <<"p", "e", "r", "c", "e", "n", "t", "C", "o", "m", "p", "l", "e", "t", "e">> >>

EXCLUDED_DATA_TYPES == << <<"L", "A", "R", "G", "E", "_", "S", "T", "R", "I", "N", "G">>, <<"A", "T", "T", "A", "C", "H", "M", "E", "N", "T">>, <<"B", "I", "N", "A", "R", "Y">>, <<"B", "L", "O", "B">> >>

----------------------------------------------------------------------------
\* The remote system, as far as its answers are fixed: the object types it
\* describes and their attributes.  Whether a call succeeds, and the records
\* it returns, are chosen by the actions.

\* Groupable attributes of the custom object beyond its three named ones.
WidgetFields == 13

projects == <<"p", "r", "o", "j", "e", "c", "t", "s">>
custWidget == <<"c", "u", "s", "t", "W", "i", "d", "g", "e", "t">>
ObjectTypes == {projects, custWidget}

\* One attribute of a describe response.
RawAttribute(name, attributeName, displayName, dataType, isReadOnly, lookupType) ==
    [name |-> name, attributeName |-> attributeName, displayName |-> displayName,
     dataType |-> dataType, isReadOnly |-> isReadOnly, lookupType |-> lookupType]

ProjectAttributes ==
    << RawAttribute(Some(<<"_", "i", "n", "t", "e", "r", "n", "a", "l", "I", "d">>), None, Some(<<"I", "n", "t", "e", "r", "n", "a", "l", " ", "I", "D">>), Some(<<"N", "U", "M", "B", "E", "R">>), TRUE, None),
       RawAttribute(Some(<<"s", "t", "a", "t", "u", "s">>), None, Some(<<"S", "t", "a", "t", "u", "s">>), Some(<<"S", "T", "R", "I", "N", "G">>), FALSE, None),
       RawAttribute(Some(<<"p", "r", "i", "o", "r", "i", "t", "y">>), None, None, None, FALSE, None),
       RawAttribute(None, Some(<<"c", "_", "s", "t", "a", "g", "e">>), Some(<<"S", "t", "a", "g", "e">>), Some(<<"S", "T", "R", "I", "N", "G">>), TRUE, Some(<<"S", "T", "A", "G", "E", "_", "L", "O", "O", "K", "U", "P">>)),
       RawAttribute(Some(<<"d", "e", "s", "c", "r", "i", "p", "t", "i", "o", "n">>), None, Some(<<"D", "e", "s", "c", "r", "i", "p", "t", "i", "o", "n">>), Some(<<"L", "A", "R", "G", "E", "_", "S", "T", "R", "I", "N", "G">>), FALSE, None),
       RawAttribute(None, None, Some(<<"O", "r", "p", "h", "a", "n">>), Some(<<"S", "T", "R", "I", "N", "G">>), FALSE, None),
       RawAttribute(Some(<<"s", "t", "a", "r", "t", "D", "a", "t", "e">>), None, Some(<<"S", "t", "a", "r", "t", " ", "D", "a", "t", "e">>), Some(<<"D", "A", "T", "E">>), FALSE, None),
       RawAttribute(Some(<<"_", "s", "e", "c", "r", "e", "t">>), None, Some(<<"S", "e", "c", "r", "e", "t">>), Some(<<"S", "T", "R", "I", "N", "G">>), FALSE, None) >>

WidgetAttribute(k) ==
    RawAttribute(Some(<<"w", "f">> \o Numeral(k)), None, Some(<<"W", "i", "d", "g", "e", "t", " ">> \o Numeral(k)),
                 Some(<<"S", "T", "R", "I", "N", "G">>), FALSE, None)

\* The remote system lists the numbered attributes from the last to the first.
WidgetAttributes ==
    [i \in 1..WidgetFields |-> WidgetAttribute(WidgetFields + 1 - i)]
    \o << RawAttribute(Some(<<"w", "_", "r", "e", "f">>), None, Some(<<"R", "e", "f", "e", "r", "e", "n", "c", "e">>), Some(<<"N", "U", "M", "B", "E", "R">>), FALSE, Some(<<"R", "E", "F", "_", "L", "O", "O", "K", "U", "P">>)),
          RawAttribute(Some(<<"o", "w", "n", "e", "r">>), None, Some(<<"O", "w", "n", "e", "r">>), Some(<<"S", "T", "R", "I", "N", "G">>), FALSE, Some(<<"U", "S", "E", "R", "_", "L", "O", "O", "K", "U", "P">>)),
          RawAttribute(Some(<<"n", "a", "m", "e">>), None, Some(<<"N", "a", "m", "e">>), Some(<<"S", "T", "R", "I", "N", "G">>), FALSE, None) >>

\* GET /describe/{objectType}?includeAttributes=true
DescribeResponse(objectType) ==
    IF objectType = projects
    THEN [label |-> Some(<<"P", "r", "o", "j", "e", "c", "t", "s">>), pluralLabel |-> None, isCustom |-> FALSE,
          attributes |-> ProjectAttributes]
    ELSE [label |-> Some(<<"W", "i", "d", "g", "e", "t", "s">>), pluralLabel |-> Some(<<"W", "i", "d", "g", "e", "t", "s">>), isCustom |-> TRUE,
          attributes |-> WidgetAttributes]

\* GET /describe?limit=500
DescribeAllResponse ==
    << [resourceName |-> Some(projects), label |-> Some(<<"P", "r", "o", "j", "e", "c", "t", "s">>)],
       [resourceName |-> Some(<<"t", "a", "s", "k", "s">>), label |-> None],
       [resourceName |-> Some(custWidget), label |-> Some(<<"W", "i", "d", "g", "e", "t", "s">>)] >>

\* GET /describe?filter=(isCustom = true) and (isSystem = false)&limit=500
DescribeCustomResponse ==
    << [resourceName |-> Some(custWidget), label |-> Some(<<"W", "i", "d", "g", "e", "t", "s">>)],
       [resourceName |-> Some(<<"c", "u", "s", "t", "D", "r", "a", "f", "t">>), label |-> None] >>

\* A remote call, as the claims observe it: who issued it, and what.
Call(by, method, endpoint) == [by |-> by, method |-> method, endpoint |-> endpoint]

\* Error messages of ClarityApiClient.request (HTTP status and body, or the
\* fetch failure) and of the reasoning service's client.
RemoteErrors ==
    { <<"H", "T", "T", "P", " ", "4", "0", "4", ":", " ", "R", "e",
        "s", "o", "u", "r", "c", "e", " ", "n", "o", "t", " ", "f",
        "o", "u", "n", "d">>, <<"H", "T", "T", "P", " ", "4", "0", "1", ":", " ", "U", "n",
                                        "a", "u", "t", "h", "o", "r", "i", "z", "e", "d">>,
      <<"c", "o", "n", "n", "e", "c", "t", " ", "E", "C", "O", "N",
        "N", "R", "E", "F", "U", "S", "E", "D", " ", "1", "0", ".",
        "0", ".", "0", ".", "1", ":", "4", "4", "3">>, <<"H", "T", "T", "P", " ", "5", "0", "0", ":", " ">> }
ServerError == <<"H", "T", "T", "P", " ", "5", "0", "0", ":", " ">>
ReasoningError == <<"C", "o", "n", "n", "e", "c", "t", "i", "o", "n", " ", "e", "r", "r", "o", "r", ".">>

----------------------------------------------------------------------------
\* MetadataService: discovery and schema caches.

DiscoveryOutcomes == {"ok", "firstCallFails", "secondCallFails"}

\* discoverAllObjects, lines 1122-1128: the cached list is returned while fresh
DiscoveryIsFresh(md, t) ==
    IsSome(md.discoveredObjects)
    /\ t - md.discoveredObjectsTimestamp < CACHE_TTL_DISCOVERED_OBJECTS

RECURSIVE AddAll(_, _)
\* Set.add of each name, in order: the insertion order of the Set
AddAll(names, more) ==
    IF Len(more) = 0 THEN names
    ELSE AddAll(IF InSeq(names, more[1]) THEN names ELSE Append(names, more[1]), Tail(more))

RECURSIVE ResourceNames(_)
ResourceNames(results) ==
    IF Len(results) = 0 THEN << >>
    ELSE (IF IsSome(results[1].resourceName) /\ Get(results[1].resourceName) # << >>
          THEN <<Get(results[1].resourceName)>> ELSE << >>)
         \o ResourceNames(Tail(results))

\* discoverAllObjects, lines 1143-1152: labels of the described objects
LabelsAfterDiscovery(labels, results) ==
    [o \in ObjectTypes |->
        IF \E i \in 1..Len(results) :
              /\ results[i].resourceName = Some(o)
              /\ IsSome(results[i].label) /\ Get(results[i].label) # << >>
        THEN LET i == CHOOSE j \in 1..Len(results) :
                        /\ results[j].resourceName = Some(o)
                        /\ IsSome(results[j].label) /\ Get(results[j].label) # << >>
                        /\ \A k \in (j + 1)..Len(results) :
                              ~(/\ results[k].resourceName = Some(o)
                                /\ IsSome(results[k].label) /\ Get(results[k].label) # << >>)
             IN  results[i].label
        ELSE labels[o]]

RECURSIVE CustomObjectsOf(_)
\* discoverAllObjects, lines 1155-1160
CustomObjectsOf(results) ==
    IF Len(results) = 0 THEN << >>
    ELSE (IF /\ IsSome(results[1].resourceName) /\ Get(results[1].resourceName) # << >>
             /\ IsSome(results[1].label) /\ Get(results[1].label) # << >>
          THEN <<[label |-> Get(results[1].label), resourceName |-> Get(results[1].resourceName)]>>
          ELSE << >>)
         \o CustomObjectsOf(Tail(results))

DescribeAllCall == Call("discoverAllObjects", "GET", <<"/", "d", "e", "s", "c", "r", "i", "b", "e", "?", "l", "i",
                                        "m", "i", "t", "=", "5", "0", "0">>)
DescribeCustomCall ==
    Call("discoverAllObjects", "GET",
         <<"/", "d", "e", "s", "c", "r", "i", "b", "e", "?", "f", "i",
           "l", "t", "e", "r", "=", "(", "i", "s", "C", "u", "s", "t",
           "o", "m", " ", "=", " ", "t", "r", "u", "e", ")", " ", "a",
           "n", "d", " ", "(", "i", "s", "S", "y", "s", "t", "e", "m",
           " ", "=", " ", "f", "a", "l", "s", "e", ")", "&", "l", "i",
           "m", "i", "t", "=", "5", "0", "0">>)

DiscoveredNames_onlyRemote(results) == AddAll(<< >>, ResourceNames(results))

\* discoverAllObjects, lines 1141-1166: the Set of the described names, then the
\* standard names, as an array
DiscoveredNames(results) == AddAll(AddAll(<< >>, ResourceNames(results)), STANDARD_OBJECTS)

\* discoverAllObjects(forceRefresh) at time t; outcome is what the remote system does
\* when it is asked, all and custom are what its two describe calls answer.  The
\* result: the service after the call, the list returned and the remote calls made.
discoverAllObjectsForce(md, t, forceRefresh, outcome, all, custom) ==
    IF ~forceRefresh /\ DiscoveryIsFresh(md, t)
    THEN [md |-> md, value |-> Get(md.discoveredObjects), calls |-> << >>]
    ELSE IF outcome = "ok"
    THEN With(DiscoveredNames(all), LAMBDA names :
             [md |-> [md EXCEPT
                        !.discoveredObjects = Some(names),
                        !.discoveredObjectsTimestamp = t,
                        !.customObjectsCache = Some(CustomObjectsOf(custom)),
                        !.objectLabelsCache = LabelsAfterDiscovery(@, all)],
              value |-> names,
              calls |-> <<DescribeAllCall, DescribeCustomCall>>])
    ELSE [md |-> [md EXCEPT !.discoveredObjects = Some(STANDARD_OBJECTS),
                            !.discoveredObjectsTimestamp = t],
          value |-> STANDARD_OBJECTS,
          calls |-> IF outcome = "firstCallFails" THEN <<DescribeAllCall>>
                    ELSE <<DescribeAllCall, DescribeCustomCall>>]

\* discoverAllObjects(): forceRefresh has its default, false
discoverAllObjectsFrom(md, t, outcome, all, custom) ==
    discoverAllObjectsForce(md, t, FALSE, outcome, all, custom)

\* discoverAllObjects against the remote system of the requests
discoverAllObjects(md, t, outcome) ==
    discoverAllObjectsFrom(md, t, outcome, DescribeAllResponse, DescribeCustomResponse)

\* getCustomObjects
getCustomObjects(md, t, outcome) ==
    IF IsSome(md.customObjectsCache)
    THEN [md |-> md, value |-> Get(md.customObjectsCache), calls |-> << >>]
    ELSE With(discoverAllObjects(md, t, outcome), LAMBDA d :
             [md |-> d.md,
              value |-> IF IsSome(d.md.customObjectsCache)
                        THEN Get(d.md.customObjectsCache) ELSE << >>,
              calls |-> d.calls])

\* getObjectMetadata, lines 1210-1248: one attribute of the response
NormalizeAttribute(attr) ==
    LET apiName == IF IsSome(attr.name) THEN Get(attr.name)
                   ELSE IF IsSome(attr.attributeName) THEN Get(attr.attributeName)
                   ELSE << >>
        displayName == IF IsSome(attr.displayName) THEN Get(attr.displayName)
                       ELSE IF IsSome(attr.name) THEN Get(attr.name)
                       ELSE << >>
    IN  [apiName |-> apiName,
         displayName |-> IF displayName # << >> THEN displayName ELSE apiName,
         dataType |-> IF IsSome(attr.dataType) THEN Get(attr.dataType) ELSE <<"S", "T", "R", "I", "N", "G">>,
         isReadOnly |-> attr.isReadOnly,
         isLookup |-> IsSome(attr.lookupType) /\ Get(attr.lookupType) # << >>]

RECURSIVE NormalizeAttributes(_)
\* getObjectMetadata, lines 1209-1249: excluded data types and attributes
\* without an apiName are skipped
NormalizeAttributes(raw) ==
    IF Len(raw) = 0 THEN << >>
    ELSE LET attr == NormalizeAttribute(raw[1])
         IN  (IF InSeq(EXCLUDED_DATA_TYPES, attr.dataType) \/ attr.apiName = << >>
              THEN << >> ELSE <<attr>>)
             \o NormalizeAttributes(Tail(raw))

\* getObjectMetadata, lines 1251-1257
BuildMetadata(objectType, response) ==
    LET label == IF IsSome(response.label) THEN Get(response.label) ELSE objectType
    IN  [resourceName |-> objectType,
         label |-> label,
         pluralLabel |-> IF IsSome(response.pluralLabel) THEN Get(response.pluralLabel)
                         ELSE label,
         isCustom |-> response.isCustom,
         attributes |-> NormalizeAttributes(response.attributes)]

DescribeCall(objectType) ==
    Call("getObjectMetadata", "GET",
         <<"/", "d", "e", "s", "c", "r", "i", "b", "e", "/">> \o objectType \o <<"?", "i", "n", "c", "l", "u", "d", "e", "A", "t", "t", "r",
                                        "i", "b", "u", "t", "e", "s", "=", "t", "r", "u", "e">>)

serviceGetObjectMetadataFrom_cachesFailure(md, objectType, outcome, response) ==
    IF IsSome(md.metadataCache[objectType])
    THEN [md |-> md, value |-> md.metadataCache[objectType], threw |-> None, calls |-> << >>]
    ELSE With(BuildMetadata(objectType, response), LAMBDA built :
             [md |-> [md EXCEPT !.metadataCache[objectType] = Some(built),
                                !.objectLabelsCache[objectType] = Some(built.label)],
              value |-> IF IsSome(outcome) THEN None ELSE Some(built), threw |-> outcome,
              calls |-> <<DescribeCall(objectType)>>])

\* MetadataService.getObjectMetadata(objectType); outcome is None when the
\* remote call succeeds, with response, and the error it throws otherwise.
serviceGetObjectMetadataFrom(md, objectType, outcome, response) ==
    IF IsSome(md.metadataCache[objectType])
    THEN [md |-> md, value |-> md.metadataCache[objectType], threw |-> None, calls |-> << >>]
    ELSE IF IsSome(outcome)
    THEN [md |-> md, value |-> None, threw |-> outcome, calls |-> <<DescribeCall(objectType)>>]
    ELSE With(BuildMetadata(objectType, response), LAMBDA built :
             [md |-> [md EXCEPT !.metadataCache[objectType] = Some(built),
                                !.objectLabelsCache[objectType] = Some(built.label)],
              value |-> Some(built), threw |-> None,
              calls |-> <<DescribeCall(objectType)>>])

\* getObjectMetadata against the remote system of the requests
serviceGetObjectMetadata(md, objectType, outcome) ==
    serviceGetObjectMetadataFrom(md, objectType, outcome, DescribeResponse(objectType))

\* getObjectLabel
getObjectLabel(md, objectType, outcome) ==
    IF IsSome(md.objectLabelsCache[objectType])
    THEN [md |-> md, value |-> Get(md.objectLabelsCache[objectType]), calls |-> << >>]
    ELSE With(serviceGetObjectMetadata(md, objectType, outcome), LAMBDA m :
             [md |-> m.md,
              value |-> IF IsSome(m.threw) THEN objectType
                        ELSE IF Get(m.value).pluralLabel # << >> THEN Get(m.value).pluralLabel
                        ELSE IF Get(m.value).label # << >> THEN Get(m.value).label
                        ELSE objectType,
              calls |-> m.calls])

ValidTypes == << <<"S", "T", "R", "I", "N", "G">>, <<"L", "O", "O", "K", "U", "P">>, <<"B", "O", "O", "L", "E", "A", "N">>, <<"N", "U", "M", "B", "E", "R">>, <<"I", "N", "T", "E", "G", "E", "R">> >>

\* getGroupableFields, lines 1288-1293
IsGroupable(attr) ==
    /\ ~(StartsWith(attr.apiName, <<"_">>) /\ attr.apiName # <<"_", "i", "n", "t", "e", "r", "n", "a", "l", "I", "d">>)
    /\ ~(attr.isReadOnly /\ ~attr.isLookup)
    /\ ~(~InSeq(ValidTypes, attr.dataType) /\ ~attr.isLookup)

\* getGroupableFields, lines 1294-1304: the comparator of the sort
CompareGroupable(a, b) ==
    LET aPriority == IndexOf(PRIORITY_FIELDS, a.apiName)
        bPriority == IndexOf(PRIORITY_FIELDS, b.apiName)
    IN  IF aPriority # 0 - 1 /\ bPriority # 0 - 1 THEN aPriority - bPriority
        ELSE IF aPriority # 0 - 1 THEN 0 - 1
        ELSE IF bPriority # 0 - 1 THEN 1
        ELSE IF a.isLookup /\ ~b.isLookup THEN 0 - 1
        ELSE IF ~a.isLookup /\ b.isLookup THEN 1
        ELSE LocaleCompare(a.displayName, b.displayName)

RECURSIVE InsertGroupable(_, _)
\* x goes before the first element it compares less than: a stable sort
InsertGroupable(sorted, x) ==
    IF Len(sorted) = 0 THEN <<x>>
    ELSE IF CompareGroupable(x, sorted[1]) < 0 THEN <<x>> \o sorted
    ELSE <<sorted[1]>> \o InsertGroupable(Tail(sorted), x)

RECURSIVE SortGroupable(_, _)
SortGroupable(sorted, rest) ==
    IF Len(rest) = 0 THEN sorted
    ELSE SortGroupable(InsertGroupable(sorted, rest[1]), Tail(rest))

\* getGroupableFields
getGroupableFields(metadata) ==
    SortGroupable(<< >>, SelectSeq(metadata.attributes, IsGroupable))
----------------------------------------------------------------------------
\* ClarityApiClient.request: the retry loop around one fetch.  The loop is
\* suspended while a fetch is under way and while a backoff timer runs.

\* The largest retry count a client is configured with.
MaxRetryCount == 3

\* What one fetch comes to: a response that is ok, a response that is not ok
\* (its status, and its body as response.text() reads it), or a rejection
\* (fetch, the abort on timeout, or reading the body fails).
FetchOk == [kind |-> "ok", status |-> 200, text |-> << >>]
HttpFailure(status, text) == [kind |-> "http", status |-> status, text |-> text]
Rejected(status, message) == [kind |-> "rejected", status |-> status, text |-> message]

FetchOutcomes ==
    { FetchOk,
      HttpFailure(401, <<"U", "n", "a", "u", "t", "h", "o", "r", "i", "z", "e", "d">>),
      HttpFailure(403, <<"F", "o", "r", "b", "i", "d", "d", "e", "n">>),
      HttpFailure(404, <<"R", "e", "s", "o", "u", "r", "c", "e", " ", "n", "o", "t",
                         " ", "f", "o", "u", "n", "d">>),
      HttpFailure(500, << >>),
      HttpFailure(502, <<"u", "p", "s", "t", "r", "e", "a", "m", " ", "a", "n", "s",
                         "w", "e", "r", "e", "d", " ", "4", "0", "3">>),
      Rejected(0, <<"f", "e", "t", "c", "h", " ", "f", "a", "i", "l", "e", "d">>),
      Rejected(401, <<"t", "e", "r", "m", "i", "n", "a", "t", "e", "d">>) }

\* new Error(`HTTP ${response.status}: ${errorText}`), or the rejection's error.
ErrorMessage(outcome) ==
    IF outcome.kind = "http"
    THEN <<"H", "T", "T", "P", " ">> \o Numeral(outcome.status) \o <<":", " ">> \o outcome.text
    ELSE outcome.text

IsAuthError_only401(message) == Includes(message, <<"4", "0", "1">>)

\* lastError.message.includes('401') || lastError.message.includes('403')
IsAuthError(message) == Includes(message, <<"4", "0", "1">>) \/ Includes(message, <<"4", "0", "3">>)

\* 1000 * (attempt + 1)
BackoffMs(attempt) == 1000 * (attempt + 1)

\* A client that has made no request.
IdleClient ==
    [pc |-> "idle", maxRetries |-> MaxRetryCount, method |-> "GET", attempt |-> 0,
     lastError |-> None, outcomes |-> << >>, waits |-> << >>, thrown |-> None]

\* The loop condition, and the throw after the loop.
EnterLoop(c) ==
    IF c.attempt < c.maxRetries THEN [c EXCEPT !.pc = "fetch"]
    ELSE [c EXCEPT !.pc = "thrown",
                   !.thrown = IF IsSome(c.lastError) THEN c.lastError
                              ELSE Some(<<"R", "e", "q", "u", "e", "s", "t", " ", "f", "a", "i", "l", "e", "d">>)]

\* request(method, endpoint) up to its first fetch.
StartRequest(maxRetries, method) ==
    EnterLoop([IdleClient EXCEPT !.maxRetries = maxRetries, !.method = method])

\* The fetch of this attempt settles: return the data, or catch the error.
AfterFetch(c, outcome) ==
    LET seen == [c EXCEPT !.outcomes = Append(@, outcome)]
        message == ErrorMessage(outcome)
        caught == [seen EXCEPT !.lastError = Some(message)]
    IN  IF outcome.kind = "ok" THEN [seen EXCEPT !.pc = "returned"]
        ELSE IF IsAuthError(message)
        THEN [caught EXCEPT !.pc = "thrown", !.thrown = Some(message)]
        ELSE IF c.attempt < c.maxRetries - 1
        THEN [caught EXCEPT !.pc = "wait", !.waits = Append(@, BackoffMs(c.attempt))]
        ELSE EnterLoop([caught EXCEPT !.attempt = @ + 1])

\* The backoff timer fires: the next iteration of the loop.
AfterBackoff(c) == EnterLoop([c EXCEPT !.attempt = @ + 1])

----------------------------------------------------------------------------
\* ToolRegistry (constants.ts) and SessionManager.

PERMISSION_PRESETS ==
    [readonly |-> <<"read">>,
     analyst |-> <<"read", "analyze", "export">>,
     editor |-> <<"read", "analyze", "write">>,
     manager |-> <<"read", "analyze", "write", "export", "custom_objects", "projects",
                   "tasks">>,
     admin |-> <<"read", "analyze", "write", "delete", "export", "admin", "custom_objects",
                 "projects", "tasks", "resources", "financials">>]

\* A tool: its id, the permissions it requires and the capability isAvailable reads.
Tool(id, requiredPermissions, capability) ==
    [id |-> id, requiredPermissions |-> requiredPermissions, capability |-> capability]

ALL_TOOLS ==
    << Tool("list_records", <<"read">>, "canRead"),
       Tool("count_records", <<"read">>, "canRead"),
       Tool("get_record", <<"read">>, "canRead"),
       Tool("create_chart", <<"read", "analyze">>, "canRead"),
       Tool("drill_down", <<"read", "analyze">>, "canRead"),
       Tool("get_deep_link", <<"read">>, "canRead"),
       Tool("create_record", <<"write">>, "canWrite"),
       Tool("update_record", <<"write">>, "canWrite"),
       Tool("delete_record", <<"delete">>, "canDelete"),
       Tool("export_data", <<"read", "export">>, "canRead"),
       Tool("list_objects", <<"read">>, "canRead"),
       Tool("describe_object", <<"read">>, "canRead") >>

\* let clarityCapabilities: nothing validated yet.
UnvalidatedCapabilities ==
    [canRead |-> FALSE, canWrite |-> FALSE, canDelete |-> FALSE, hasProjects |-> FALSE,
     hasTasks |-> FALSE, hasResources |-> FALSE, hasCustomObjects |-> FALSE,
     validatedAt |-> 0]

NewToolRegistry ==
    [sessionPermissions |-> [s \in Sessions |-> None],
     clarityCapabilities |-> UnvalidatedCapabilities]

\* validateCapabilities: four probes of the remote system, each of which may fail;
\* write and delete are assumed where read works.
validateCapabilities(reg, t, probes) ==
    [reg EXCEPT !.clarityCapabilities =
        [canRead |-> probes.projects, canWrite |-> probes.projects,
         canDelete |-> probes.projects, hasProjects |-> probes.projects,
         hasTasks |-> probes.tasks, hasResources |-> probes.resources,
         hasCustomObjects |-> probes.customObjects, validatedAt |-> t]]

CAPABILITY_MAX_AGE_MS == 10 * 60 * 1000

\* needsRefresh
needsRefresh(reg, t) == t - reg.clarityCapabilities.validatedAt > CAPABILITY_MAX_AGE_MS

\* options?.expiresInMinutes ? new Date(Date.now() + minutes * 60 * 1000) : undefined
ExpiresAt(expiresInMinutes, t) ==
    IF IsSome(expiresInMinutes) /\ Get(expiresInMinutes) # 0
    THEN Some(t + Get(expiresInMinutes) * 60 * 1000)
    ELSE None

\* registerSession, called with a permission list: the stored SessionPermissions.
registerSession(reg, sessionId, permissions, options, t) ==
    LET session == [sessionId |-> sessionId, userId |-> options.userId,
                    permissions |-> permissions,
                    allowedObjects |-> options.allowedObjects,
                    deniedObjects |-> options.deniedObjects,
                    createdAt |-> t,
                    expiresAt |-> ExpiresAt(options.expiresInMinutes, t)]
    IN  [reg |-> [reg EXCEPT !.sessionPermissions[sessionId] = Some(session)],
         session |-> session]

\* session.expiresAt && new Date() > session.expiresAt
SessionExpired(session, t) == IsSome(session.expiresAt) /\ t > Get(session.expiresAt)

\* A lookup that answers null for an expired session and keeps its entry.
getSessionPermissions_keepsExpired(reg, sessionId, t) ==
    LET stored == reg.sessionPermissions[sessionId]
    IN  IF ~IsSome(stored) THEN [reg |-> reg, session |-> None]
        ELSE IF SessionExpired(Get(stored), t) THEN [reg |-> reg, session |-> None]
        ELSE [reg |-> reg, session |-> stored]

\* getSessionPermissions: an expired session is deleted when it is looked up.
getSessionPermissions(reg, sessionId, t) ==
    LET stored == reg.sessionPermissions[sessionId]
    IN  IF ~IsSome(stored) THEN [reg |-> reg, session |-> None]
        ELSE IF SessionExpired(Get(stored), t)
        THEN [reg |-> [reg EXCEPT !.sessionPermissions[sessionId] = None], session |-> None]
        ELSE [reg |-> reg, session |-> stored]

\* A tool is granted when the session has one of its required permissions.
HasPermissions_some(tool, perms) ==
    \E i \in 1..Len(tool.requiredPermissions) : InSeq(perms, tool.requiredPermissions[i])

\* tool.requiredPermissions.every(p => perms.includes(p))
HasPermissions(tool, perms) ==
    \A i \in 1..Len(tool.requiredPermissions) : InSeq(perms, tool.requiredPermissions[i])

\* The tools of which the session has one required permission.
getAvailableTools_somePermission(reg, sessionId, t) ==
    LET found == getSessionPermissions(reg, sessionId, t)
        perms == IF IsSome(found.session) THEN Get(found.session).permissions
                 ELSE <<"read">>
    IN  [reg |-> found.reg,
         tools |-> SelectSeq(ALL_TOOLS, LAMBDA tool :
                       /\ HasPermissions_some(tool, perms)
                       /\ reg.clarityCapabilities[tool.capability])]

\* getAvailableTools: the tools the session's permissions and the capabilities allow.
getAvailableTools(reg, sessionId, t) ==
    LET found == getSessionPermissions(reg, sessionId, t)
        perms == IF IsSome(found.session) THEN Get(found.session).permissions
                 ELSE <<"read">>
    IN  [reg |-> found.reg,
         tools |-> SelectSeq(ALL_TOOLS, LAMBDA tool :
                       /\ HasPermissions(tool, perms)
                       /\ reg.clarityCapabilities[tool.capability])]

ToolIds(tools) == [i \in 1..Len(tools) |-> tools[i].id]

\* canUseTool
canUseTool(reg, sessionId, toolId, t) ==
    InSeq(ToolIds(getAvailableTools(reg, sessionId, t).tools), toolId)

\* An access check that consults the allowed types before the denied ones.
canAccessObject_allowFirst(reg, sessionId, objectType, t) ==
    LET session == getSessionPermissions(reg, sessionId, t).session
    IN  IF ~IsSome(session) THEN TRUE
        ELSE IF IsSome(Get(session).allowedObjects)
                /\ Len(Get(Get(session).allowedObjects)) > 0
        THEN InSeq(Get(Get(session).allowedObjects), objectType)
        ELSE ~(IsSome(Get(session).deniedObjects)
               /\ InSeq(Get(Get(session).deniedObjects), objectType))

\* canAccessObject
canAccessObject(reg, sessionId, objectType, t) ==
    LET session == getSessionPermissions(reg, sessionId, t).session
    IN  IF ~IsSome(session) THEN TRUE
        ELSE IF IsSome(Get(session).deniedObjects)
                /\ InSeq(Get(Get(session).deniedObjects), objectType) THEN FALSE
        ELSE IF IsSome(Get(session).allowedObjects)
                /\ Len(Get(Get(session).allowedObjects)) > 0
        THEN InSeq(Get(Get(session).allowedObjects), objectType)
        ELSE TRUE

\* removeSession
removeSession(reg, sessionId) == [reg EXCEPT !.sessionPermissions[sessionId] = None]

\* A SessionConfig; absent fields are None.
SessionConfig(sessionId, userId, username, role, permissions, allowedObjects, deniedObjects, metadata, expiresInMinutes) ==
    [sessionId |-> sessionId, userId |-> userId, username |-> username, role |-> role,
     permissions |-> permissions, allowedObjects |-> allowedObjects,
     deniedObjects |-> deniedObjects, metadata |-> metadata,
     expiresInMinutes |-> expiresInMinutes]

\* config.permissions ?? (config.role ? PERMISSION_PRESETS[config.role] : ['read'])
ConfiguredPermissions(config) ==
    IF IsSome(config.permissions) THEN Get(config.permissions)
    ELSE IF IsSome(config.role) THEN PERMISSION_PRESETS[Get(config.role)]
    ELSE <<"read">>

\* The SessionInfo of a stored session.
SessionInfo(sessionId, userId, username, session, tools) ==
    [sessionId |-> sessionId, userId |-> userId, username |-> username,
     permissions |-> session.permissions, allowedTools |-> ToolIds(tools),
     createdAt |-> ToISOString(session.createdAt),
     expiresAt |-> IF IsSome(session.expiresAt)
                   THEN Some(ToISOString(Get(session.expiresAt))) ELSE None]

\* createSession: registers the session, stores its metadata, lists its tools.
createSession(reg, sm, config, t) ==
    LET registered ==
            registerSession(reg, config.sessionId, ConfiguredPermissions(config),
                [userId |-> config.userId, allowedObjects |-> config.allowedObjects,
                 deniedObjects |-> config.deniedObjects,
                 expiresInMinutes |->
                     IF IsSome(config.expiresInMinutes) THEN config.expiresInMinutes
                     ELSE Some(60)], t)
        stored == IF IsSome(config.metadata)
                  THEN [sm EXCEPT !.sessionMetadata[config.sessionId] =
                            Some([metadata |-> Get(config.metadata),
                                  username |-> config.username])]
                  ELSE sm
        available == getAvailableTools(registered.reg, config.sessionId, t)
    IN  [reg |-> available.reg, sm |-> stored,
         info |-> Some(SessionInfo(config.sessionId, config.userId, config.username,
                                   registered.session, available.tools))]

\* getSession
getSession(reg, sm, sessionId, t) ==
    LET found == getSessionPermissions(reg, sessionId, t)
        available == getAvailableTools(found.reg, sessionId, t)
        metadata == sm.sessionMetadata[sessionId]
    IN  IF ~IsSome(found.session) THEN [reg |-> found.reg, sm |-> sm, info |-> None]
        ELSE [reg |-> available.reg, sm |-> sm,
              info |-> Some(SessionInfo(sessionId, Get(found.session).userId,
                                        IF IsSome(metadata) THEN Get(metadata).username
                                        ELSE None,
                                        Get(found.session), available.tools))]

\* validateToolAccess
validateToolAccess(reg, sessionId, toolId, t) ==
    IF ~IsSome(getSessionPermissions(reg, sessionId, t).session)
    THEN [allowed |-> FALSE, reason |-> "Session not found or expired"]
    ELSE IF ~canUseTool(reg, sessionId, toolId, t)
    THEN [allowed |-> FALSE, reason |-> "Insufficient permissions for tool"]
    ELSE [allowed |-> TRUE, reason |-> "none"]

\* validateObjectAccess
validateObjectAccess(reg, sessionId, objectType, t) ==
    [allowed |-> canAccessObject(reg, sessionId, objectType, t)]

\* endSession
endSession(reg, sm, sessionId) ==
    [reg |-> removeSession(reg, sessionId),
     sm |-> [sm EXCEPT !.sessionMetadata[sessionId] = None]]

\* refreshSession: the session is created again from its SessionInfo.
refreshSession(reg, sm, sessionId, extendMinutes, t) ==
    LET current == getSession(reg, sm, sessionId, t)
    IN  IF ~IsSome(current.info) THEN current
        ELSE createSession(current.reg, current.sm,
                 SessionConfig(sessionId, Get(current.info).userId,
                               Get(current.info).username, None,
                               Some(Get(current.info).permissions), None, None, None,
                               Some(extendMinutes)), t)

----------------------------------------------------------------------------
\* The ContextService on objects with identity.  The Map holds a reference to each
\* context object; a context object holds a reference to its history array and to
\* its lastQuery object; the methods change these objects in place.  A reference
\* is the index of the object among the objects of its kind, in allocation order.

NewHeap ==
    [contexts |-> [s \in Sessions |-> None], objects |-> << >>, arrays |-> << >>,
     queries |-> << >>]

FreshArray_shared(h) ==
    IF Len(h.arrays) > 0 THEN [heap |-> h, ref |-> 1]
    ELSE [heap |-> [h EXCEPT !.arrays = Append(@, << >>)], ref |-> 1]

\* history: [] in createNewContext: a new, empty array
FreshArray(h) == [heap |-> [h EXCEPT !.arrays = Append(@, << >>)], ref |-> Len(h.arrays) + 1]

\* The object literal a caller of updateLastQuery builds: a new object.
FreshQuery(h, query) ==
    [heap |-> [h EXCEPT !.queries = Append(@, query)], ref |-> Len(h.queries) + 1]

\* getContext: the reference of the session's context object, created when absent.
getContextInPlace(h, sessionId) ==
    LET history == FreshArray(h)
        context == [sessionId |-> sessionId, history |-> history.ref, lastQuery |-> None,
                    currentPage |-> None, preferences |-> None]
    IN  IF IsSome(h.contexts[sessionId])
        THEN [heap |-> h, ref |-> Get(h.contexts[sessionId])]
        ELSE [heap |-> [history.heap EXCEPT !.objects = Append(@, context),
                                            !.contexts[sessionId] = Some(Len(h.objects) + 1)],
              ref |-> Len(h.objects) + 1]

\* updateLastQuery: context.lastQuery = query, the reference the caller passed
updateLastQueryInPlace(h, sessionId, query) ==
    LET got == getContextInPlace(h, sessionId)
    IN  [got.heap EXCEPT !.objects[got.ref].lastQuery = Some(query)]

\* addToHistory: push on the array of the context; slice(-20) makes a new array
addToHistoryInPlace(h, sessionId, turn) ==
    LET got == getContextInPlace(h, sessionId)
        array == got.heap.objects[got.ref].history
        pushed == [got.heap EXCEPT !.arrays[array] = Append(@, turn)]
    IN  IF Len(pushed.arrays[array]) > MAX_HISTORY_LENGTH
        THEN [pushed EXCEPT
                 !.arrays = Append(@, SliceLast(pushed.arrays[array], MAX_HISTORY_LENGTH)),
                 !.objects[got.ref].history = Len(pushed.arrays) + 1]
        ELSE pushed

\* setCurrentPage
setCurrentPageInPlace(h, sessionId, page) ==
    LET got == getContextInPlace(h, sessionId)
    IN  [got.heap EXCEPT !.objects[got.ref].currentPage = Some(page)]

\* updatePreferences: a new preferences object, spread from the old and the given
updatePreferencesInPlace(h, sessionId, preferences) ==
    LET got == getContextInPlace(h, sessionId)
    IN  [got.heap EXCEPT !.objects[got.ref].preferences =
            Some(MergePreferences(@, preferences))]

\* clearContext: contexts.delete(sessionId)
clearContextInPlace(h, sessionId) == [h EXCEPT !.contexts[sessionId] = None]

\* The ConversationContext a reference stands for.
Deref(h, ref) ==
    LET object == h.objects[ref]
    IN  [object EXCEPT !.history = h.arrays[object.history],
                       !.lastQuery = IF IsSome(@) THEN Some(h.queries[Get(@)]) ELSE None]

\* The store as its readers see it.
View(h) ==
    [s \in Sessions |-> IF IsSome(h.contexts[s]) THEN Some(Deref(h, Get(h.contexts[s])))
                        ELSE None]


----------------------------------------------------------------------------
\* ContextService: queries derived from the last query.

\* JavaScript truthiness of an optional string
Truthy(o) == IsSome(o) /\ Get(o) # << >>

\* QueryMemory: what updateLastQuery receives.  chartData is the list of the
\* entries of the object, each a key and its buckets.
QueryMemory(objectType, objectLabel, action, filters, results, totalCount, groupByField, groupByDisplayName, chartData, timestamp) ==
    [objectType |-> objectType, objectLabel |-> objectLabel, action |-> action,
     filters |-> filters, results |-> results, totalCount |-> totalCount,
     groupByField |-> groupByField, groupByDisplayName |-> groupByDisplayName,
     chartData |-> chartData, timestamp |-> timestamp]

\* obj[key] on a list of entries
Lookup(entries, key) ==
    IF \E i \in 1..Len(entries) : entries[i].key = key
    THEN Some(entries[CHOOSE i \in 1..Len(entries) : entries[i].key = key].value)
    ELSE None

\* canDrillDown, lines 107-110, on the context getContext returns
canDrillDown(store, sessionId) ==
    LET context == getContext(store, sessionId)
    IN  /\ IsSome(context.lastQuery)
        /\ IsSome(Get(context.lastQuery).chartData)
        /\ Truthy(Get(context.lastQuery).groupByField)

RECURSIVE Labels(_)
\* chartData.map(item => item.label)
Labels(items) == IF Len(items) = 0 THEN << >> ELSE <<items[1].label>> \o Labels(Tail(items))

\* getDrillDownOptions
getDrillDownOptions(store, sessionId) ==
    IF ~canDrillDown(store, sessionId) THEN << >>
    ELSE LET lastQuery == Get(getContext(store, sessionId).lastQuery)
             chartData == Lookup(Get(lastQuery.chartData), Get(lastQuery.groupByField))
         IN  IF IsSome(chartData)
             THEN Labels(Get(chartData))
             ELSE << >>

\* Array.prototype.find over the options, as an index (0 when there is none):
\* options.find(opt => ...) of findDrillDownMatch, lines 138-141
FirstIndex(options, Test(_)) ==
    LET hits == {i \in 1..Len(options) : Test(options[i])}
    IN  IF hits = {} THEN 0 ELSE CHOOSE i \in hits : \A j \in hits : i <= j

\* The first option that matches in part, whether or not another is equal.
FindMatch_partialFirst(options, userValue) ==
    LET lowerUserValue == ToLower(userValue)
        Partial(opt) == \/ Includes(ToLower(opt), lowerUserValue)
                        \/ Includes(lowerUserValue, ToLower(opt))
        partialMatch == FirstIndex(options, Partial)
    IN  IF partialMatch # 0 /\ options[partialMatch] # << >> THEN Some(options[partialMatch])
        ELSE None

\* findDrillDownMatch, lines 131-144, over the options of the last chart
FindMatch(options, userValue) ==
    LET lowerUserValue == ToLower(userValue)
        Exact(opt) == ToLower(opt) = lowerUserValue
        Partial(opt) == \/ Includes(ToLower(opt), lowerUserValue)
                        \/ Includes(lowerUserValue, ToLower(opt))
        exactMatch == FirstIndex(options, Exact)
        partialMatch == FirstIndex(options, Partial)
    IN  IF exactMatch # 0 /\ options[exactMatch] # << >> THEN Some(options[exactMatch])
        ELSE IF partialMatch # 0 /\ options[partialMatch] # << >> THEN Some(options[partialMatch])
        ELSE None

\* findDrillDownMatch
findDrillDownMatch(store, sessionId, userValue) ==
    FindMatch(getDrillDownOptions(store, sessionId), userValue)

----------------------------------------------------------------------------
\* DeepLinkService.

\* The constructor strips /ppm/rest/v1 from the configured base URL.
clarityBaseUrl == <<"h", "t", "t", "p", ":", "/", "/", "c", "l", "a", "r", "i",
                    "t", "y", ".", "e", "x", "a", "m", "p", "l", "e">>

LinkPaths == << <<"p", "r", "o", "j", "e", "c", "t", "s">>, <<"t", "a", "s", "k", "s">>, <<"r", "e", "s", "o", "u", "r", "c", "e", "s">>, <<"i", "d", "e", "a", "s">>, <<"r", "i", "s", "k", "s">>, <<"i", "s", "s", "u", "e", "s">>,
                <<"t", "i", "m", "e", "s", "h", "e", "e", "t", "s">> >>

isCustomObject(objectType) == StartsWith(ToLower(objectType), <<"c", "u", "s", "t">>)

\* generateListLink
generateListLink(objectType) ==
    IF isCustomObject(objectType)
    THEN clarityBaseUrl \o <<"/", "p", "m", "/", "#", "/", "c", "u", "s", "t", "o", "m",
                             "o", "b", "j", "e", "c", "t", "s", "/">> \o objectType \o <<"/", "c", "o", "m", "m", "o", "n">>
    ELSE clarityBaseUrl \o <<"/", "p", "m", "/", "#", "/">>
         \o (IF InSeq(LinkPaths, ToLower(objectType)) THEN ToLower(objectType) ELSE objectType)
         \o <<"/", "c", "o", "m", "m", "o", "n">>

\* generateRecordLink, for the object types of the model
generateRecordLink(objectType, recordId, tab) ==
    IF isCustomObject(objectType)
    THEN clarityBaseUrl \o <<"/", "p", "m", "/", "#", "/", "c", "u", "s", "t", "o", "m",
                             "o", "b", "j", "e", "c", "t", "s", "/">> \o objectType \o <<"/">> \o Numeral(recordId)
    ELSE IF ToLower(objectType) = <<"p", "r", "o", "j", "e", "c", "t", "s">>
    THEN clarityBaseUrl \o <<"/", "p", "m", "/", "#", "/", "p", "r", "o", "j", "e", "c", "t", "/">> \o Numeral(recordId) \o <<"/">> \o tab
    ELSE clarityBaseUrl \o <<"/", "p", "m", "/", "#", "/">> \o objectType \o <<"/">> \o Numeral(recordId) \o <<"/">> \o tab

Unreserved == << "-", "_", ".", "!", "~", "*", "'", "(", ")" >>

\* encodeURIComponent on one ASCII character
EncodeChar(c) ==
    IF IsLetter(c) \/ IsDigit(c) \/ InSeq(Unreserved, c) THEN <<c>>
    ELSE CASE c = " " -> <<"%", "2", "0">> [] c = "\"" -> <<"%", "2", "2">> [] c = "#" -> <<"%", "2", "3">>
           [] c = "$" -> <<"%", "2", "4">> [] c = "%" -> <<"%", "2", "5">> [] c = "&" -> <<"%", "2", "6">>
           [] c = "+" -> <<"%", "2", "B">> [] c = "," -> <<"%", "2", "C">> [] c = "/" -> <<"%", "2", "F">>
           [] c = ":" -> <<"%", "3", "A">> [] c = ";" -> <<"%", "3", "B">> [] c = "<" -> <<"%", "3", "C">>
           [] c = "=" -> <<"%", "3", "D">> [] c = ">" -> <<"%", "3", "E">> [] c = "?" -> <<"%", "3", "F">>
           [] c = "@" -> <<"%", "4", "0">>
           [] c = "[" -> <<"%", "5", "B">> [] c = "\\" -> <<"%", "5", "C">>
           [] c = "]" -> <<"%", "5", "D">> [] c = "^" -> <<"%", "5", "E">> [] c = "U+0060" -> <<"%", "6", "0">>
           [] c = "{" -> <<"%", "7", "B">> [] c = "|" -> <<"%", "7", "C">> [] c = "}" -> <<"%", "7", "D">>
           [] c = "\n" -> <<"%", "0", "A">>

RECURSIVE encodeURIComponent(_)
encodeURIComponent(t) ==
    IF Len(t) = 0 THEN << >> ELSE EncodeChar(t[1]) \o encodeURIComponent(Tail(t))

\* generateFilteredLink
generateFilteredLink(objectType, field, value) ==
    generateListLink(objectType) \o <<"?", "f", "i", "l", "t", "e", "r", "=">> \o encodeURIComponent(field \o <<"=">> \o value)

\* generateMultiFilterLink; filters is the list of the entries of the object
generateMultiFilterLink(objectType, filters) ==
    generateListLink(objectType) \o <<"?", "f", "i", "l", "t", "e", "r", "=">>
    \o encodeURIComponent(
         Join([i \in 1..Len(filters) |-> filters[i].key \o <<"=">> \o filters[i].value], <<"&">>))

----------------------------------------------------------------------------
\* The messages of the model, and what the patterns of the code find in each.
\* includes() tests are computed on the text; the values found by a regular
\* expression are tabulated, one line for each message.

M_analyze == <<"s", "h", "o", "w", " ", "p", "r", "o", "j", "e", "c", "t",
               " ", "d", "i", "s", "t", "r", "i", "b", "u", "t", "i", "o",
               "n", " ", "b", "y", " ", "s", "t", "a", "t", "u", "s">>
M_widgets == <<"a", "n", "a", "l", "y", "z", "e", " ", "w", "i", "d", "g",
               "e", "t", "s", " ", "b", "y", " ", "n", "o", "n", "e", "x",
               "i", "s", "t", "e", "n", "t", "_", "f", "i", "e", "l", "d">>
M_two == <<"a", "n", "a", "l", "y", "z", "e", " ", "p", "r", "o", "j",
           "e", "c", "t", "s", " ", "b", "y", " ", "s", "t", "a", "g",
           "e", " ", "a", "n", "d", " ", "s", "t", "a", "t", "u", "s">>
M_drill == <<"s", "h", "o", "w", " ", "m", "e", " ", "t", "h", "e", " ",
             "a", "c", "t", "i", "v", "e", " ", "o", "n", "e", "s">>
M_drillNone == <<"s", "h", "o", "w", " ", "m", "e", " ", "t", "h", "e", " ",
                 "p", "e", "n", "d", "i", "n", "g", " ", "o", "n", "e", "s">>
M_drillRaw == <<"s", "h", "o", "w", " ", "m", "e", " ", "t", "h", "e", " ",
                "o", "n", "e", "s", " ", "t", "h", "a", "t", " ", "a", "r",
                "e", " ", "c", "o", "m", "p", "l", "e", "t", "e", "d">>
M_link == <<"g", "i", "v", "e", " ", "m", "e", " ", "a", " ", "l", "i", "n", "k">>
M_linkDrill == <<"g", "e", "t", " ", "m", "e", " ", "t", "h", "e", " ", "a",
                 "c", "t", "i", "v", "e", " ", "l", "i", "n", "k", " ", "t",
                 "o", " ", "z", "z", "z">>
M_linkAll == <<"g", "i", "v", "e", " ", "m", "e", " ", "a", " ", "l", "i",
               "n", "k", " ", "t", "o", " ", "a", "l", "l", " ", "p", "r",
               "o", "j", "e", "c", "t", "s">>
M_hi == <<"h", "i">>
M_count == <<"h", "o", "w", " ", "m", "a", "n", "y", " ", "t", "o", "t", "a", "l">>
M_export == <<"e", "x", "p", "o", "r", "t", " ", "t", "h", "e", "m", " ",
              "t", "o", " ", "e", "x", "c", "e", "l">>
M_custom == <<"l", "i", "s", "t", " ", "c", "u", "s", "t", "o", "m", " ",
              "o", "b", "j", "e", "c", "t", "s">>
M_delete == <<"d", "e", "l", "e", "t", "e", " ", "p", "r", "o", "j", "e",
              "c", "t", " ", "A", "p", "o", "l", "l", "o">>
M_create == <<"c", "r", "e", "a", "t", "e", " ", "p", "r", "o", "j", "e",
              "c", "t", " ", "n", "a", "m", "e", "d", " ", "A", "p", "o",
              "l", "l", "o">>
M_details == <<"t", "e", "l", "l", " ", "m", "e", " ", "m", "o", "r", "e">>
M_linkTo == <<"l", "i", "n", "k", " ", "t", "o", " ", "z", "z", "z">>

Messages ==
    { M_analyze, M_widgets, M_two, M_drill, M_drillNone, M_drillRaw, M_link, M_linkDrill, M_linkAll,
      M_hi, M_count, M_export, M_custom, M_delete, M_create }

\* handleMessage, line 373: /^(hi|hello|hey|help|...)[\s!.?]*$/i on the trimmed message
IsGreeting(message) == message = M_hi

Intent(type, extractedValue) == [type |-> type, extractedValue |-> extractedValue]

\* detectFollowUpIntent: the first pattern of FOLLOW_UP_PATTERNS, in the order
\* showSelected, export, count, details, filter, link, that matches the
\* lower-cased message, and its capture group match[3] || match[2] || match[1]
detectFollowUpIntent(message) ==
    CASE message = M_widgets -> Intent("showSelected", Some(<<"s">>))
      [] message = M_drill -> Intent("showSelected", Some(<<"a", "c", "t", "i", "v", "e">>))
      [] message = M_drillNone -> Intent("showSelected", Some(<<"p", "e", "n", "d", "i", "n", "g">>))
      [] message = M_drillRaw -> Intent("showSelected", Some(<<"t", "h", "e">>))
      [] message = M_link -> Intent("link", None)
      [] message = M_linkDrill -> Intent("showSelected", Some(<<"a", "c", "t", "i", "v", "e">>))
      [] message = M_linkAll -> Intent("link", Some(<<"t", "o">>))
      [] message = M_count -> Intent("count", Some(<<"t", "o", "t", "a", "l">>))
      [] message = M_export -> Intent("export", Some(<<"t", "o", " ", "e", "x", "c", "e", "l">>))
      [] message = M_details -> Intent("details", None)
      [] message = M_linkTo -> Intent("link", Some(<<"t", "o">>))
      [] OTHER -> Intent("none", None)

\* handleLinkRequest, line 641: the object named after "link to (all)"
LinkAllObject(message) == IF message = M_linkAll THEN Some(<<"p", "r", "o", "j", "e", "c", "t", "s">>) ELSE None

\* handleLinkRequest, lines 670-675: the name after "link to", without a
\* trailing "project(s)"
LinkRecordName(message) ==
    CASE message \in {M_linkDrill, M_linkTo} -> Some(<<"z", "z", "z">>)
      [] message = M_linkAll -> Some(<<"a", "l", "l">>)
      [] OTHER -> None

\* extractProjectName: no message of the model names a project after in/for/of/under
extractProjectName(message) == None

\* extractRecordName
extractRecordName(message) ==
    CASE message = M_analyze -> Some(<<"d", "i", "s", "t", "r", "i", "b", "u", "t", "i", "o", "n",
                                       " ", "b", "y", " ", "s", "t", "a", "t", "u", "s">>)
      [] message = M_delete -> Some(<<"A", "p", "o", "l", "l", "o">>)
      [] message = M_create -> Some(<<"n", "a", "m", "e", "d", " ", "A", "p", "o", "l", "l", "o">>)
      [] OTHER -> None

\* executeCreate, line 1447: the name after named/called
CreateName(message) == IF message = M_create THEN Some(<<"A", "p", "o", "l", "l", "o">>) ELSE None

\* handleCustomObjectsQuery, lines 990-994: no message of the model holds a number
HasDigits(message) == \E i \in 1..Len(message) : IsDigit(message[i])

----------------------------------------------------------------------------
\* Records of the remote system.

\* A field value of a record: null, a string, or an object (a lookup value).
RawNull == [kind |-> "null", text |-> << >>, displayValue |-> None, code |-> None]
RawString(text) == [kind |-> "string", text |-> text, displayValue |-> None, code |-> None]
RawObject(displayValue, code, json) ==
    [kind |-> "object", text |-> json, displayValue |-> displayValue, code |-> code]

\* formatFieldValue
formatFieldValue(value) ==
    IF value.kind = "null" THEN << >>
    ELSE IF value.kind = "object"
    THEN IF IsSome(value.displayValue) THEN Get(value.displayValue)
         ELSE IF IsSome(value.code) THEN Get(value.code)
         ELSE value.text
    ELSE value.text

\* A record of a list response.
Record(id, name, code, status) ==
    [_internalId |-> id, name |-> name, code |-> code, status |-> status]

\* record['name'] ?? record['code'] ?? record['_internalId'], as the reply shows it
RecordTitle(record) ==
    IF IsSome(record.name) THEN Get(record.name)
    ELSE IF IsSome(record.code) THEN Get(record.code)
    ELSE Numeral(record._internalId)

Apollo == Record(101, Some(<<"A", "p", "o", "l", "l", "o">>), Some(<<"A", "P", "O">>), RawString(<<"A", "c", "t", "i", "v", "e">>))
Nameless == Record(102, None, None, RawNull)

\* A list response: _results and _totalCount, either of which may be missing.
ListResponse(results, totalCount) == [_results |-> results, _totalCount |-> totalCount]

\* response._results ?? []
ResultsOf(response) == IF IsSome(response._results) THEN Get(response._results) ELSE << >>
\* response._totalCount ?? records.length
TotalCountOf(response) ==
    IF IsSome(response._totalCount) THEN Get(response._totalCount)
    ELSE Len(ResultsOf(response))

----------------------------------------------------------------------------
\* AIChatHandler.  A request threads a record st through its steps: the
\* conversation store, the handler's own caches, the MetadataService, the
\* remote calls made so far and the number of reasoning-service calls.

Response(success, reply, chartData, deepLink, timestamp) ==
    [success |-> success, reply |-> reply, chartData |-> chartData,
     deepLink |-> deepLink, timestamp |-> timestamp]

\* A step that returned a response (or null: None), or threw.
Returned(st, response) == [st |-> st, response |-> response, threw |-> None]
Threw(st, error) == [st |-> st, response |-> None, threw |-> Some(error)]

WithCalls(st, calls) == [st EXCEPT !.calls = @ \o calls]

\* this.metadataService.getCustomObjects() from the handler
CustomObjects(st, t, discovery) ==
    With(getCustomObjects(st.md, t, discovery), LAMBDA r :
        [st |-> WithCalls([st EXCEPT !.md = r.md], r.calls), value |-> r.value])

\* handleMessage, lines 357-370: the context is created, the user turn is
\* appended and the object types are discovered when the handler has none
BeginRequest(store, h, md, sessionId, message, t, discovery) ==
    LET store1 == addToHistory(getContextStore(store, sessionId), sessionId,
                               Turn(ToISOString(t), "user", message))
    IN
    With(discoverAllObjects(md, t, discovery), LAMBDA d :
        IF Len(h.discoveredObjects) = 0
        THEN [contexts |-> store1, handler |-> [h EXCEPT !.discoveredObjects = d.value],
              md |-> d.md, calls |-> d.calls, ai |-> 0]
        ELSE [contexts |-> store1, handler |-> h, md |-> md, calls |-> << >>, ai |-> 0])

\* toolRegistry.getCapabilities(): before and after the startup validation
Capability(hasProjects, hasTasks, hasResources, hasCustomObjects) ==
    [hasProjects |-> hasProjects, hasTasks |-> hasTasks, hasResources |-> hasResources,
     hasCustomObjects |-> hasCustomObjects]
DefaultCapabilities == Capability(FALSE, FALSE, FALSE, FALSE)
Capabilities == {DefaultCapabilities, Capability(TRUE, TRUE, TRUE, TRUE)}

\* getHelpResponse, lines 1562-1576
HelpFeatures(caps, customObjects) ==
    (IF caps.hasProjects
     THEN << <<"U+2022", " ", "\"", "S", "h", "o", "w", " ", "p", "r", "o",
               "j", "e", "c", "t", " ", "d", "i", "s", "t", "r", "i", "b",
               "u", "t", "i", "o", "n", " ", "b", "y", " ", "s", "t", "a",
               "t", "u", "s", "\"">>,
             <<"U+2022", " ", "\"", "L", "i", "s", "t", " ", "p", "r", "o",
               "j", "e", "c", "t", "s", "\"", " ", "/", " ", "\"", "H", "o",
               "w", " ", "m", "a", "n", "y", " ", "p", "r", "o", "j", "e",
               "c", "t", "s", "?", "\"">> >>
     ELSE << >>)
    \o (IF caps.hasTasks THEN << <<"U+2022", " ", "\"", "L", "i", "s", "t", " ", "t", "a", "s",
                                   "k", "s", "\"", " ", "/", " ", "\"", "A", "n", "a", "l", "y",
                                   "z", "e", " ", "t", "a", "s", "k", "s", " ", "b", "y", " ",
                                   "p", "r", "i", "o", "r", "i", "t", "y", "\"">> >> ELSE << >>)
    \o (IF caps.hasCustomObjects /\ Len(customObjects) > 0
        THEN << <<"U+2022", " ", "\"", "L", "i", "s", "t", " ", "c", "u", "s",
                  "t", "o", "m", " ", "o", "b", "j", "e", "c", "t", "s", "\"">>,
                <<"U+2022", " ", "\"", "S", "h", "o", "w", " ">>
                \o (IF customObjects[1].label # << >> THEN customObjects[1].label
                    ELSE <<"c", "u", "s", "t", "o", "m", " ", "o", "b", "j", "e", "c", "t">>)
                \o <<" ", "d", "a", "t", "a", "\"">> >>
        ELSE << >>)
    \o << <<"U+2022", " ", "\"", "G", "i", "v", "e", " ", "m", "e", " ",
            "a", " ", "l", "i", "n", "k", " ", "t", "o", " ", "p", "r",
            "o", "j", "e", "c", "t", " ", "X", "\"">>,
          <<"U+2022", " ", "\"", "S", "h", "o", "w", " ", "m", "e", " ",
            "t", "h", "e", " ", "a", "c", "t", "i", "v", "e", " ", "o",
            "n", "e", "s", "\"", " ", "(", "a", "f", "t", "e", "r", " ",
            "a", " ", "c", "h", "a", "r", "t", ")">> >>

\* getHelpResponse, lines 1579-1582
HelpObjects(caps) ==
    (IF caps.hasProjects THEN << <<"p", "r", "o", "j", "e", "c", "t", "s">> >> ELSE << >>)
    \o (IF caps.hasTasks THEN << <<"t", "a", "s", "k", "s">> >> ELSE << >>)
    \o (IF caps.hasResources THEN << <<"r", "e", "s", "o", "u", "r", "c", "e", "s">> >> ELSE << >>)

\* getHelpResponse
getHelpResponse(st, timestamp, t, discovery, caps) ==
    With(CustomObjects(st, t, discovery), LAMBDA c :
    LET customObjects == c.value
        labels == [i \in 1..Len(SliceFirst(customObjects, 5)) |-> customObjects[i].label]
        reply ==
            <<"U+D83E", "U+DD16", " ", "*", "*", "C", "l", "a", "r", "i",
              "t", "y", " ", "A", "I", " ", "A", "s", "s", "i", "s", "t",
              "a", "n", "t", "*", "*", "\n", "\n">>
            \o <<"I", " ", "u", "n", "d", "e", "r", "s", "t", "a", "n", "d",
                 " ", "n", "a", "t", "u", "r", "a", "l", " ", "l", "a", "n",
                 "g", "u", "a", "g", "e", " ", "a", "n", "d", " ", "r", "e",
                 "m", "e", "m", "b", "e", "r", " ", "o", "u", "r", " ", "c",
                 "o", "n", "v", "e", "r", "s", "a", "t", "i", "o", "n", "!",
                 "\n", "\n">>
            \o <<"*", "*", "T", "r", "y", ":", "*", "*", "\n">>
            \o Join(SliceFirst(HelpFeatures(caps, customObjects), 6), <<"\n">>) \o <<"\n", "\n">>
            \o <<"*", "*", "A", "v", "a", "i", "l", "a", "b", "l", "e", ":", "*", "*", " ">> \o Join(HelpObjects(caps), <<",", " ">>)
            \o (IF caps.hasCustomObjects
                THEN <<" ", "+", " ">> \o Numeral(Len(customObjects)) \o <<" ", "c", "u", "s", "t", "o", "m", " ", "o", "b", "j", "e", "c", "t", "s">>
                ELSE << >>)
            \o <<"\n">>
            \o (IF Len(customObjects) > 0
                THEN <<"*", "*", "C", "u", "s", "t", "o", "m", " ", "O", "b", "j",
                       "e", "c", "t", "s", ":", "*", "*", " ">> \o Join(labels, <<",", " ">>) \o <<".", ".", ".", "\n", "\n">>
                ELSE <<"\n">>)
            \o <<"U+D83D", "U+DCA1", " ", "A", "f", "t", "e", "r", " ", "v",
                 "i", "e", "w", "i", "n", "g", " ", "a", " ", "c", "h", "a",
                 "r", "t", ",", " ", "c", "l", "i", "c", "k", " ", "b", "a",
                 "r", "s", " ", "t", "o", " ", "d", "r", "i", "l", "l", " ",
                 "d", "o", "w", "n", "!">>
    IN  Returned(c.st, Some(Response(TRUE, reply, None, None, timestamp))))

----------------------------------------------------------------------------
\* Link requests.

\* generateContextLink
generateContextLink(context, timestamp) ==
    IF ~(IsSome(context.lastQuery) /\ Get(context.lastQuery).objectType # << >>)
    THEN Response(FALSE,
           <<"U+2753", " ", "I", " ", "n", "e", "e", "d", " ", "t", "o",
             " ", "k", "n", "o", "w", " ", "w", "h", "a", "t", " ", "t",
             "o", " ", "l", "i", "n", "k", " ", "t", "o", ".", "\n", "\n",
             "T", "r", "y", ":", "\n", "U+2022", " ", "\"", "G", "i", "v",
             "e", " ", "m", "e", " ", "l", "i", "n", "k", " ", "t", "o",
             " ", "a", "l", "l", " ", "p", "r", "o", "j", "e", "c", "t",
             "s", "\"", "\n">>
           \o <<"U+2022", " ", "\"", "G", "i", "v", "e", " ", "m", "e", " ",
                "l", "i", "n", "k", " ", "t", "o", " ", "p", "r", "o", "j",
                "e", "c", "t", " ", "[", "n", "a", "m", "e", "]", "\"", "\n",
                "U+2022", " ", "\"", "G", "i", "v", "e", " ", "m", "e", " ",
                "l", "i", "n", "k", " ", "t", "o", " ", "c", "u", "s", "t",
                "o", "m", " ", "o", "b", "j", "e", "c", "t", "s", "\"">>,
           None, None, timestamp)
    ELSE LET lastQuery == Get(context.lastQuery)
             filtered == IsSome(lastQuery.filters) /\ Len(Get(lastQuery.filters)) > 0
             filters == Get(lastQuery.filters)
             deepLink == IF filtered
                         THEN generateMultiFilterLink(lastQuery.objectType, filters)
                         ELSE generateListLink(lastQuery.objectType)
             linkDescription ==
                 IF filtered
                 THEN lastQuery.objectLabel \o <<" ", "f", "i", "l", "t", "e", "r", "e", "d", " ", "b", "y", " ">>
                      \o Join([i \in 1..Len(filters) |->
                                  filters[i].key \o <<"=", "\"">> \o filters[i].value \o <<"\"">>],
                              <<",", " ">>)
                 ELSE <<"A", "l", "l", " ">> \o lastQuery.objectLabel
         IN  Response(TRUE,
               <<"U+D83D", "U+DD17", " ", "*", "*", "L", "i", "n", "k", " ",
                 "t", "o", " ", "C", "l", "a", "r", "i", "t", "y", "*", "*",
                 "\n", "\n">> \o linkDescription \o <<":", "\n">> \o deepLink,
               None, Some(deepLink), timestamp)

RECURSIVE EscapeQuotes(_)
\* nameOrCode.replace(/'/g, "''")
EscapeQuotes(t) ==
    IF Len(t) = 0 THEN << >>
    ELSE (IF t[1] = "'" THEN <<"'", "'">> ELSE <<t[1]>>) \o EscapeQuotes(Tail(t))

FindByCodeCall(objectType, escapedName) ==
    Call("findRecordByName", "GET",
         <<"/">> \o objectType \o <<"?", "f", "i", "l", "t", "e", "r", "=", "(", "(", "c", "o",
                                  "d", "e", " ", "=", " ", "'">> \o escapedName
         \o <<"'", ")", ")", "&", "f", "i", "e", "l", "d", "s", "=", "_",
              "i", "n", "t", "e", "r", "n", "a", "l", "I", "d", ",", "n",
              "a", "m", "e", ",", "c", "o", "d", "e", "&", "l", "i", "m",
              "i", "t", "=", "1">>)
FindByNameCall(objectType, escapedName) ==
    Call("findRecordByName", "GET",
         <<"/">> \o objectType \o <<"?", "f", "i", "l", "t", "e", "r", "=", "(", "(", "n", "a",
                                  "m", "e", " ", "c", "o", "n", "t", "a", "i", "n", "s", " ",
                                  "'">> \o escapedName
         \o <<"'", ")", ")", "&", "f", "i", "e", "l", "d", "s", "=", "_",
              "i", "n", "t", "e", "r", "n", "a", "l", "I", "d", ",", "n",
              "a", "m", "e", ",", "c", "o", "d", "e", "&", "l", "i", "m",
              "i", "t", "=", "1">>)

\* What the remote system answers to the two lookups of findRecordByName.
FindOutcomes == {"byCode", "byName", "none", "codeFails", "nameFails"}

\* findRecordByName: the record found (or null) and the calls made
findRecordByName(objectType, nameOrCode, outcome) ==
    LET escapedName == EscapeQuotes(nameOrCode)
        byCode == FindByCodeCall(objectType, escapedName)
        byName == FindByNameCall(objectType, escapedName)
    IN  CASE outcome = "byCode" -> [value |-> Some(Apollo), calls |-> <<byCode>>]
          [] outcome = "byName" -> [value |-> Some(Nameless), calls |-> <<byCode, byName>>]
          [] outcome = "none" -> [value |-> None, calls |-> <<byCode, byName>>]
          [] outcome = "codeFails" -> [value |-> None, calls |-> <<byCode>>]
          [] outcome = "nameFails" -> [value |-> None, calls |-> <<byCode, byName>>]

GenericWords == << <<"t", "h", "i", "s">>, <<"t", "h", "e", "m">>, <<"i", "t">>, <<"a", "l", "l">>, <<"t", "h", "e">>, <<"t", "h", "a", "t">> >>

\* handleLinkRequest; find is the outcome of the record lookup, when one is made
handleLinkRequest(st, sessionId, timestamp, message, t, discovery, find) ==
    LET context == getContext(st.contexts, sessionId)
        allObject == LinkAllObject(message)
        recordName == LinkRecordName(message)
    IN
    With(CustomObjects(st, t, discovery), LAMBDA c :
    LET customObjects == c.value
        Named(o) == \/ Includes(ToLower(o.label), Get(recordName))
                    \/ Includes(ToLower(o.resourceName), Get(recordName))
    IN
    With(FirstIndex(customObjects, Named), LAMBDA customObj :
    LET found == findRecordByName(projects, Get(recordName), find)
    IN  IF message = << >>
        THEN Returned(st, Some(generateContextLink(context, timestamp)))
        ELSE IF IsSome(allObject)
        THEN LET deepLink == generateListLink(Get(allObject))
             IN  Returned(st, Some(Response(TRUE,
                     <<"U+D83D", "U+DD17", " ", "*", "*", "A", "l", "l", " ">> \o Capitalize(Get(allObject)) \o <<"*", "*", "\n", "\n">> \o deepLink,
                     None, Some(deepLink), timestamp)))
        ELSE IF Includes(ToLower(message), <<"c", "u", "s", "t", "o", "m", " ", "o", "b", "j", "e", "c", "t">>)
        THEN LET links == [i \in 1..Len(SliceFirst(customObjects, 5)) |->
                              <<"U+2022", " ">> \o customObjects[i].label \o <<":", " ">>
                              \o generateListLink(customObjects[i].resourceName)]
             IN  Returned(c.st, Some(Response(TRUE,
                     <<"U+D83D", "U+DD17", " ", "*", "*", "C", "u", "s", "t", "o",
                       "m", " ", "O", "b", "j", "e", "c", "t", "s", " ", "L", "i",
                       "n", "k", "s", "*", "*", "\n", "\n">> \o Join(links, <<"\n">>)
                     \o (IF Len(customObjects) > 5
                         THEN <<"\n", "\n", ".", ".", ".", "a", "n", "d", " ">> \o Numeral(Len(customObjects) - 5) \o <<" ", "m", "o", "r", "e">>
                         ELSE << >>),
                     None, None, timestamp)))
        ELSE IF Truthy(recordName) /\ ~InSeq(GenericWords, Get(recordName))
        THEN IF customObj # 0
             THEN LET deepLink == generateListLink(customObjects[customObj].resourceName)
                  IN  Returned(c.st, Some(Response(TRUE,
                          <<"U+D83D", "U+DD17", " ", "*", "*">> \o customObjects[customObj].label \o <<"*", "*", "\n", "\n">> \o deepLink,
                          None, Some(deepLink), timestamp)))
             ELSE IF IsSome(found.value)
             THEN LET record == Get(found.value)
                      deepLink == generateRecordLink(projects, record._internalId, <<"p", "r", "o", "p", "e", "r", "t", "i", "e", "s">>)
                  IN  Returned(WithCalls(c.st, found.calls), Some(Response(TRUE,
                          <<"U+D83D", "U+DD17", " ", "*", "*", "P", "r", "o", "j", "e", "c", "t", " ", "\"">>
                          \o (IF Truthy(record.name) THEN Get(record.name) ELSE Get(recordName))
                          \o <<"\"", "*", "*", "\n", "\n">> \o deepLink,
                          None, Some(deepLink), timestamp)))
             ELSE Returned(WithCalls(c.st, found.calls), Some(Response(FALSE,
                     <<"U+274C", " ", "C", "o", "u", "l", "d", " ", "n", "o", "t",
                       " ", "f", "i", "n", "d", " ", "\"">> \o Get(recordName)
                     \o <<"\"", ".", " ", "C", "h", "e", "c", "k", " ", "t", "h", "e",
                          " ", "n", "a", "m", "e", " ", "a", "n", "d", " ", "t", "r",
                          "y", " ", "a", "g", "a", "i", "n", ".", "\n", "\n", "T", "r",
                          "y", ":", "\n">>
                     \o <<"U+2022", " ", "\"", "G", "i", "v", "e", " ", "m", "e", " ",
                          "l", "i", "n", "k", " ", "t", "o", " ", "a", "l", "l", " ",
                          "p", "r", "o", "j", "e", "c", "t", "s", "\"", "\n">>
                     \o <<"U+2022", " ", "\"", "G", "i", "v", "e", " ", "m", "e", " ",
                          "l", "i", "n", "k", " ", "t", "o", " ", "p", "r", "o", "j",
                          "e", "c", "t", " ", "[", "e", "x", "a", "c", "t", " ", "n",
                          "a", "m", "e", "]", "\"">>,
                     None, None, timestamp)))
        ELSE Returned(st, Some(generateContextLink(context, timestamp)))))

----------------------------------------------------------------------------
\* Follow-ups: drill-down, count, export.

\* What the remote system answers to a list query: an error, or a response.
ListResponses ==
    { ListResponse(None, None),
      ListResponse(Some(<<Apollo>>), None),
      ListResponse(Some(<<Apollo, Nameless>>), Some(20)) }
ListOutcomes ==
    {[threw |-> Some(ServerError), response |-> ListResponse(None, None)]}
    \cup {[threw |-> None, response |-> r] : r \in ListResponses}

\* handleDrillDown, lines 579-585, and executeQuery, lines 1302-1308
RecordLine(record) ==
    <<"U+2022", " ", "*", "*">> \o RecordTitle(record) \o <<"*", "*">>
    \o (IF formatFieldValue(record.status) # << >>
        THEN <<" ", "(">> \o formatFieldValue(record.status) \o <<")">> ELSE << >>)
    \o <<"\n">>

\* The lines of the first 15 records, and the count of the others.
RecordLines(records, totalCount) ==
    Flatten([i \in 1..Len(SliceFirst(records, 15)) |-> RecordLine(records[i])])
    \o (IF totalCount > 15
        THEN <<"\n", "_", ".", ".", ".", "a", "n", "d", " ">> \o Numeral(totalCount - 15) \o <<" ", "m", "o", "r", "e", "_">> ELSE << >>)

MatchedValue_firstOption(store, sessionId, extractedValue, originalMessage) ==
    LET options == getDrillDownOptions(store, sessionId)
    IN  IF Len(options) > 0 THEN Some(options[1]) ELSE None

\* handleDrillDown, lines 517-533: the label the follow-up selects
MatchedValue(store, sessionId, extractedValue, originalMessage) ==
    LET options == getDrillDownOptions(store, sessionId)
    IN
    With(IF Truthy(extractedValue)
         THEN findDrillDownMatch(store, sessionId, Get(extractedValue))
         ELSE None, LAMBDA matched :
    LET InMessage(option) == Includes(ToLower(originalMessage), ToLower(option))
        scanned == FirstIndex(options, InMessage)
    IN  IF Truthy(matched) THEN matched
        ELSE IF scanned # 0 /\ options[scanned] # << >> THEN Some(options[scanned])
        ELSE None)

DrillDownEndpoint_noFilter(objectType, groupByField, filterValue) ==
    <<"/">> \o objectType \o <<"?", "f", "i", "e", "l", "d", "s", "=", "_", "i", "n", "t",
                             "e", "r", "n", "a", "l", "I", "d", ",", "n", "a", "m", "e",
                             ",", "c", "o", "d", "e", ",", "s", "t", "a", "t", "u", "s",
                             "&", "l", "i", "m", "i", "t", "=", "5", "0">>

\* handleDrillDown, line 562
DrillDownEndpoint(objectType, groupByField, filterValue) ==
    <<"/">> \o objectType \o <<"?", "f", "i", "l", "t", "e", "r", "=", "(", "(">> \o groupByField \o <<" ", "=", " ", "'">> \o filterValue
    \o <<"'", ")", ")", "&", "f", "i", "e", "l", "d", "s", "=", "_",
         "i", "n", "t", "e", "r", "n", "a", "l", "I", "d", ",", "n",
         "a", "m", "e", ",", "c", "o", "d", "e", ",", "s", "t", "a",
         "t", "u", "s", "&", "l", "i", "m", "i", "t", "=", "5", "0">>

DrillDownMemory_noFilters(lastQuery, matchedValue, records, totalCount, t) ==
    QueryMemory(lastQuery.objectType, lastQuery.objectLabel, "drilldown", None,
                Some(records), Some(totalCount), None, None, None, ToISOString(t))

DrillDownMemory_staleTimestamp(lastQuery, matchedValue, records, totalCount, t) ==
    QueryMemory(lastQuery.objectType, lastQuery.objectLabel, "drilldown",
                Some(<<[key |-> Get(lastQuery.groupByField), value |-> matchedValue]>>),
                Some(records), Some(totalCount), None, None, None, lastQuery.timestamp)

DrillDownMemory_keepsGroupBy(lastQuery, matchedValue, records, totalCount, t) ==
    QueryMemory(lastQuery.objectType, lastQuery.objectLabel, "drilldown",
                Some(<<[key |-> Get(lastQuery.groupByField), value |-> matchedValue]>>),
                Some(records), Some(totalCount), lastQuery.groupByField,
                lastQuery.groupByDisplayName, None, ToISOString(t))

DrillDownMemory_keepsChart(lastQuery, matchedValue, records, totalCount, t) ==
    QueryMemory(lastQuery.objectType, lastQuery.objectLabel, "drilldown",
                Some(<<[key |-> Get(lastQuery.groupByField), value |-> matchedValue]>>),
                Some(records), Some(totalCount), lastQuery.groupByField,
                lastQuery.groupByDisplayName, lastQuery.chartData, ToISOString(t))

\* handleDrillDown, lines 594-602: the query memory written
DrillDownMemory(lastQuery, matchedValue, records, totalCount, t) ==
    QueryMemory(lastQuery.objectType, lastQuery.objectLabel, "drilldown",
                Some(<<[key |-> Get(lastQuery.groupByField), value |-> matchedValue]>>),
                Some(records), Some(totalCount), None, None, None, ToISOString(t))

\* handleDrillDown; outcome is what the remote system answers to the query
handleDrillDown(st, sessionId, extractedValue, originalMessage, timestamp, t, outcome) ==
    LET context == getContext(st.contexts, sessionId)
        lastQuery == Get(context.lastQuery)
    IN
    With(MatchedValue(st.contexts, sessionId, extractedValue, originalMessage), LAMBDA matched :
    LET options == getDrillDownOptions(st.contexts, sessionId)
        matchedValue == Get(matched)
        objectType == lastQuery.objectType
        objectLabel == lastQuery.objectLabel
        groupByField == Get(lastQuery.groupByField)
        groupByDisplayName == IF Truthy(lastQuery.groupByDisplayName)
                              THEN Get(lastQuery.groupByDisplayName) ELSE groupByField
        endpoint == DrillDownEndpoint(objectType, groupByField, matchedValue)
        called == WithCalls(st, <<Call("handleDrillDown", "GET", endpoint)>>)
        records == ResultsOf(outcome.response)
        totalCount == TotalCountOf(outcome.response)
        deepLink == generateFilteredLink(objectType, groupByField, matchedValue)
        heading == objectLabel \o <<" ", "w", "h", "e", "r", "e", " ">> \o groupByDisplayName \o <<" ", "=", " ", "\"">>
                   \o matchedValue \o <<"\"">>
    IN  IF ~(IsSome(context.lastQuery) /\ Truthy(lastQuery.groupByField)
             /\ lastQuery.objectType # << >>)
        THEN Returned(st, None)
        ELSE IF ~IsSome(matched)
        THEN Returned(st, Some(Response(FALSE,
                 <<"U+2753", " ", "I", " ", "c", "o", "u", "l", "d", "n", "'",
                   "t", " ", "d", "e", "t", "e", "r", "m", "i", "n", "e", " ",
                   "w", "h", "i", "c", "h", " ", "v", "a", "l", "u", "e", " ",
                   "y", "o", "u", " ", "w", "a", "n", "t", " ", "t", "o", " ",
                   "s", "e", "e", ".", "\n", "\n">>
                 \o <<"*", "*", "A", "v", "a", "i", "l", "a", "b", "l", "e", " ",
                      "o", "p", "t", "i", "o", "n", "s", " ", "f", "r", "o", "m",
                      " ", "t", "h", "e", " ", "l", "a", "s", "t", " ", "c", "h",
                      "a", "r", "t", ":", "*", "*", "\n">>
                 \o Join([i \in 1..Len(options) |-> <<"U+2022", " ", "\"">> \o options[i] \o <<"\"">>], <<"\n">>)
                 \o <<"\n", "\n", "P", "l", "e", "a", "s", "e", " ", "s", "p", "e",
                      "c", "i", "f", "y", " ", "o", "n", "e", " ", "o", "f", " ",
                      "t", "h", "e", "s", "e", " ", "v", "a", "l", "u", "e", "s",
                      ".">>,
                 None, None, timestamp)))
        ELSE IF IsSome(outcome.threw)
        THEN Returned(called, Some(Response(FALSE,
                 <<"U+274C", " ", "C", "o", "u", "l", "d", " ", "n", "o", "t",
                   " ", "r", "e", "t", "r", "i", "e", "v", "e", " ">> \o heading \o <<".", "\n", "\n", "E", "r", "r", "o", "r", ":", " ">> \o Get(outcome.threw),
                 None, None, timestamp)))
        ELSE Returned(
               [called EXCEPT !.contexts =
                   updateLastQuery(@, sessionId,
                       DrillDownMemory(lastQuery, matchedValue, records, totalCount, t))],
               Some(Response(TRUE,
                   <<"U+D83D", "U+DD0D", " ", "*", "*">> \o heading \o <<"*", "*", "\n">>
                   \o <<"F", "o", "u", "n", "d", " ", "*", "*">> \o Numeral(totalCount) \o <<"*", "*", " ", "r", "e", "c", "o", "r", "d", "s", "\n", "\n">>
                   \o RecordLines(records, totalCount)
                   \o <<"\n", "\n", "U+D83D", "U+DD17", " ", "[", "O", "p", "e", "n",
                        " ", "i", "n", " ", "C", "l", "a", "r", "i", "t", "y", "]",
                        "(">> \o deepLink \o <<")">>,
                   None, Some(deepLink), timestamp))))

\* handleCountFollowUp
handleCountFollowUp(st, sessionId, timestamp) ==
    LET context == getContext(st.contexts, sessionId)
    IN  IF IsSome(context.lastQuery) /\ IsSome(Get(context.lastQuery).totalCount)
        THEN Returned(st, Some(Response(TRUE,
                 <<"U+D83D", "U+DD22", " ", "*", "*", "T", "o", "t", "a", "l", ":", " ">> \o Numeral(Get(Get(context.lastQuery).totalCount)) \o <<" ">>
                 \o Get(context.lastQuery).objectLabel \o <<"*", "*">>,
                 None, None, timestamp)))
        ELSE Returned(st, Some(Response(FALSE,
                 <<"U+2753", " ", "I", " ", "d", "o", "n", "'", "t", " ", "h",
                   "a", "v", "e", " ", "a", " ", "c", "o", "u", "n", "t", " ",
                   "f", "r", "o", "m", " ", "a", " ", "p", "r", "e", "v", "i",
                   "o", "u", "s", " ", "q", "u", "e", "r", "y", ".", " ", "P",
                   "l", "e", "a", "s", "e", " ", "r", "u", "n", " ", "a", " ",
                   "q", "u", "e", "r", "y", " ", "f", "i", "r", "s", "t", ".">>,
                 None, None, timestamp)))

\* handleFollowUp
handleFollowUp(st, sessionId, intentType, extractedValue, originalMessage, timestamp, t, discovery, outcome) ==
    CASE intentType = "showSelected" ->
           handleDrillDown(st, sessionId, extractedValue, originalMessage, timestamp, t, outcome)
      [] intentType = "link" ->
           handleLinkRequest(st, sessionId, timestamp, originalMessage, t, discovery, "none")
      [] intentType = "count" -> handleCountFollowUp(st, sessionId, timestamp)
      [] intentType = "export" ->
           Returned(st, Some(Response(TRUE,
               <<"U+D83D", "U+DCE5", " ", "*", "*", "E", "x", "p", "o", "r",
                 "t", " ", "F", "e", "a", "t", "u", "r", "e", "*", "*", "\n",
                 "\n", "E", "x", "p", "o", "r", "t", " ", "f", "u", "n", "c",
                 "t", "i", "o", "n", "a", "l", "i", "t", "y", " ", "i", "s",
                 " ", "c", "o", "m", "i", "n", "g", " ", "s", "o", "o", "n",
                 "!", " ", "F", "o", "r", " ", "n", "o", "w", ",", " ", "y",
                 "o", "u", " ", "c", "a", "n", ":", "\n">>
               \o <<"U+2022", " ", "C", "o", "p", "y", " ", "t", "h", "e", " ",
                    "d", "a", "t", "a", " ", "f", "r", "o", "m", " ", "a", "b",
                    "o", "v", "e", "\n">>
               \o <<"U+2022", " ", "U", "s", "e", " ", "t", "h", "e", " ", "d",
                    "e", "e", "p", " ", "l", "i", "n", "k", " ", "t", "o", " ",
                    "o", "p", "e", "n", " ", "i", "n", " ", "C", "l", "a", "r",
                    "i", "t", "y", " ", "a", "n", "d", " ", "e", "x", "p", "o",
                    "r", "t", " ", "f", "r", "o", "m", " ", "t", "h", "e", "r",
                    "e">>,
               None, None, timestamp)))
      [] OTHER -> Returned(st, None)

\* handleMessage, lines 394-395: whether step 4 hands the message to handleFollowUp
IsFollowUp(st, sessionId, message) ==
    LET followUp == detectFollowUpIntent(message)
    IN  /\ followUp.type # "none"
        /\ followUp.type # "link"
        /\ canDrillDown(st.contexts, sessionId)

----------------------------------------------------------------------------
\* Custom-object queries answered without the reasoning service.

\* handleMessage, lines 410-417
IsCustomObjectsQuery(message) ==
    LET lowerMessage == ToLower(message)
    IN  /\ Includes(lowerMessage, <<"c", "u", "s", "t", "o", "m", " ", "o", "b", "j", "e", "c", "t">>)
        /\ ~Includes(lowerMessage, <<"c", "r", "e", "a", "t", "e">>)
        /\ ~Includes(lowerMessage, <<"n", "e", "w">>)
        /\ ~Includes(lowerMessage, <<"a", "d", "d">>)
        /\ ~Includes(lowerMessage, <<"d", "e", "s", "c", "r", "i", "b", "e">>)
        /\ ~Includes(lowerMessage, <<"f", "i", "e", "l", "d", "s">>)

\* What the remote system answers to the count of one custom object's records.
CountOutcomes == {"fails", "noTotal", "total"}
CountOf(outcome) == IF outcome = "total" THEN 7 ELSE 0

\* handleCustomObjectsQuery; every count query of the request has the same outcome
handleCustomObjectsQuery(st, message, timestamp, t, discovery, outcome) ==
    LET lowerMessage == ToLower(message)
    IN
    With(CustomObjects(st, t, discovery), LAMBDA c :
    LET customObjects == c.value
        n == Len(customObjects)
        wantsInstanceCount ==
            \/ Includes(lowerMessage, <<"m", "o", "s", "t">>) \/ Includes(lowerMessage, <<"i", "n", "s", "t", "a", "n", "c", "e">>)
            \/ Includes(lowerMessage, <<"r", "e", "c", "o", "r", "d">>) \/ Includes(lowerMessage, <<"t", "o", "p">>)
            \/ HasDigits(lowerMessage)
        calls == [i \in 1..n |->
                     Call("handleCustomObjectsQuery", "GET",
                          <<"/">> \o customObjects[i].resourceName \o <<"?", "f", "i", "e", "l", "d", "s", "=", "_", "i", "n", "t",
                                        "e", "r", "n", "a", "l", "I", "d", "&", "l", "i", "m", "i",
                                        "t", "=", "1">>)]
        \* every object has the same count: the stable sort keeps the order
        lines == [i \in 1..Min(10, n) |->
                     Numeral(i) \o <<".", " ", "*", "*">> \o customObjects[i].label \o <<"*", "*", " ", "(", "U+0060">>
                     \o customObjects[i].resourceName \o <<"U+0060", ")", " ", "-", " ", "*", "*">>
                     \o Numeral(CountOf(outcome)) \o <<"*", "*", " ", "r", "e", "c", "o", "r", "d", "s", "\n">>]
    IN  IF /\ Includes(lowerMessage, <<"h", "o", "w", " ", "m", "a", "n", "y">>) \/ Includes(lowerMessage, <<"c", "o", "u", "n", "t">>)
           /\ ~Includes(lowerMessage, <<"i", "n", "s", "t", "a", "n", "c", "e">>)
           /\ ~Includes(lowerMessage, <<"r", "e", "c", "o", "r", "d">>)
           /\ ~Includes(lowerMessage, <<"m", "o", "s", "t">>)
        THEN Returned(c.st, Some(Response(TRUE,
                 <<"U+D83D", "U+DCCA", " ", "*", "*", "F", "o", "u", "n", "d", " ">> \o Numeral(n) \o <<" ", "C", "u", "s", "t", "o", "m", " ", "O", "b", "j", "e",
                                        "c", "t", "s", "*", "*", " ", "i", "n", " ", "t", "h", "e",
                                        " ", "s", "y", "s", "t", "e", "m">>,
                 None, None, timestamp)))
        ELSE IF wantsInstanceCount
        THEN Returned(WithCalls(c.st, calls), Some(Response(TRUE,
                 <<"U+D83D", "U+DCCA", " ", "*", "*", "T", "o", "p", " ", "1",
                   "0", " ", "C", "u", "s", "t", "o", "m", " ", "O", "b", "j",
                   "e", "c", "t", "s", " ", "b", "y", " ", "I", "n", "s", "t",
                   "a", "n", "c", "e", " ", "C", "o", "u", "n", "t", "*", "*",
                   "\n", "\n">>
                 \o Flatten(lines)
                 \o <<"\n", "U+D83D", "U+DCC8", " ", "*", "*", "T", "o", "t", "a", "l", ":", "*", "*", " ">> \o Numeral(n * CountOf(outcome))
                 \o <<" ", "r", "e", "c", "o", "r", "d", "s", " ", "a", "c", "r", "o", "s", "s", " ">> \o Numeral(n) \o <<" ", "c", "u", "s", "t", "o", "m", " ", "o", "b", "j", "e", "c", "t", "s">>,
                 None, None, timestamp)))
        ELSE Returned(c.st, Some(Response(TRUE,
                 <<"U+D83D", "U+DCCB", " ", "*", "*", "C", "u", "s", "t", "o",
                   "m", " ", "O", "b", "j", "e", "c", "t", "s", " ", "(">> \o Numeral(n) \o <<")", "*", "*", "\n", "\n">>
                 \o Flatten([i \in 1..n |->
                       <<"U+2022", " ", "*", "*">> \o customObjects[i].label \o <<"*", "*", " ", "(", "U+0060">>
                       \o customObjects[i].resourceName \o <<"U+0060", ")", "\n">>])
                 \o <<"\n", "U+D83D", "U+DCA1", " ", "T", "o", " ", "q", "u", "e",
                      "r", "y", " ", "a", " ", "c", "u", "s", "t", "o", "m", " ",
                      "o", "b", "j", "e", "c", "t", ",", " ", "t", "r", "y", ":",
                      " ", "\"", "l", "i", "s", "t", " ">>
                 \o (IF n > 0 THEN customObjects[1].resourceName ELSE <<"c", "u", "s", "t", "X", "X", "X">>)
                 \o <<"\"">>,
                 None, None, timestamp))))

----------------------------------------------------------------------------
\* The plan: target object, field hint and the reasoning service's reply.

\* A step that computed a value (a schema, a plan), or threw.
Computed(st, value) == [st |-> st, value |-> Some(value), threw |-> None]
Failed(st, error) == [st |-> st, value |-> None, threw |-> Some(error)]

\* AIChatHandler.getObjectMetadata: the handler's own cache before the
\* service; outcome and response are what the remote system does when it is asked
getObjectMetadataFrom(st, objectType, outcome, response) ==
    IF IsSome(st.handler.metadataCache[objectType])
    THEN Computed(st, Get(st.handler.metadataCache[objectType]))
    ELSE With(serviceGetObjectMetadataFrom(st.md, objectType, outcome, response), LAMBDA m :
         LET st1 == WithCalls([st EXCEPT !.md = m.md], m.calls)
         IN  IF IsSome(m.threw) THEN Failed(st1, Get(m.threw))
             ELSE Computed([st1 EXCEPT !.handler.metadataCache[objectType] = m.value],
                           Get(m.value)))

\* getObjectMetadata against the remote system of the requests
getObjectMetadata(st, objectType, outcome) ==
    getObjectMetadataFrom(st, objectType, outcome, DescribeResponse(objectType))

\* this.metadataService.getObjectLabel(objectType) from the handler
ObjectLabel(st, objectType, outcome) ==
    With(getObjectLabel(st.md, objectType, outcome), LAMBDA r :
        [st |-> WithCalls([st EXCEPT !.md = r.md], r.calls), value |-> r.value])

StandardObjects == << <<"p", "r", "o", "j", "e", "c", "t", "s">>, <<"t", "a", "s", "k", "s">>, <<"r", "e", "s", "o", "u", "r", "c", "e", "s">>, <<"i", "d", "e", "a", "s">>, <<"r", "i", "s", "k", "s">>,
                      <<"i", "s", "s", "u", "e", "s">>, <<"t", "i", "m", "e", "s", "h", "e", "e", "t", "s">> >>
\* obj.slice(0, -1)
Singular(obj) == SubSeq(obj, 1, Len(obj) - 1)

\* detectTargetObject, lines 933-937: the triggers written in the Latin alphabet
ContextTriggers == << <<"t", "h", "e", " ", "o", "b", "j", "e", "c", "t">>, <<"t", "h", "i", "s", " ", "o", "b", "j", "e", "c", "t">>, <<"t", "h", "a", "t", " ", "o", "b", "j", "e", "c", "t">>, <<"i", "t">>, <<"t", "h", "i", "s">>,
                      <<"m", "o", "r", "e", " ", "d", "a", "t", "a">>, <<"m", "o", "r", "e", " ", "i", "n", "f", "o">>, <<"d", "e", "s", "c", "r", "i", "b", "e">>, <<"f", "i", "e", "l", "d", "s">> >>

\* hasObjectMention
hasObjectMention(message, customObjects) ==
    \/ \E i \in 1..Len(StandardObjects) :
          \/ Includes(message, StandardObjects[i])
          \/ Includes(message, Singular(StandardObjects[i]))
    \/ \E i \in 1..Len(customObjects) :
          \/ Includes(message, ToLower(customObjects[i].label))
          \/ Includes(message, ToLower(customObjects[i].resourceName))

\* The standard object types looked for before the custom objects.
detectTargetObject_standardFirst(st, message, sessionId, t, discovery) ==
    LET lowerMessage == ToLower(message)
    IN
    With(CustomObjects(st, t, discovery), LAMBDA c :
    LET Custom(obj) == \/ Includes(lowerMessage, ToLower(obj.label))
                       \/ Includes(lowerMessage, ToLower(obj.resourceName))
        Standard(obj) == Includes(lowerMessage, obj) \/ Includes(lowerMessage, Singular(obj))
        custom == FirstIndex(c.value, Custom)
        standard == FirstIndex(StandardObjects, Standard)
        context == getContext(c.st.contexts, sessionId)
    IN  IF standard # 0
        THEN [st |-> c.st, objectType |-> StandardObjects[standard],
              label |-> Capitalize(StandardObjects[standard])]
        ELSE IF custom # 0
        THEN [st |-> c.st, objectType |-> c.value[custom].resourceName,
              label |-> c.value[custom].label]
        ELSE IF IsSome(context.lastQuery)
        THEN [st |-> c.st, objectType |-> Get(context.lastQuery).objectType,
              label |-> Get(context.lastQuery).objectLabel]
        ELSE [st |-> c.st, objectType |-> projects, label |-> <<"P", "r", "o", "j", "e", "c", "t", "s">>])

\* detectTargetObject
detectTargetObject(st, message, sessionId, t, discovery) ==
    LET lowerMessage == ToLower(message)
    IN
    With(CustomObjects(st, t, discovery), LAMBDA c :
    LET customObjects == c.value
        Custom(obj) == \/ Includes(lowerMessage, ToLower(obj.label))
                       \/ Includes(lowerMessage, ToLower(obj.resourceName))
        Standard(obj) == Includes(lowerMessage, obj) \/ Includes(lowerMessage, Singular(obj))
    IN
    With(FirstIndex(customObjects, Custom), LAMBDA custom :
    LET standard == FirstIndex(StandardObjects, Standard)
        hasContextReference ==
            \E i \in 1..Len(ContextTriggers) : Includes(lowerMessage, ContextTriggers[i])
        context == getContext(c.st.contexts, sessionId)
    IN  IF custom # 0
        THEN [st |-> c.st, objectType |-> customObjects[custom].resourceName,
              label |-> customObjects[custom].label]
        ELSE IF standard # 0
        THEN [st |-> c.st, objectType |-> StandardObjects[standard],
              label |-> Capitalize(StandardObjects[standard])]
        ELSE IF /\ hasContextReference \/ ~hasObjectMention(lowerMessage, customObjects)
                /\ IsSome(context.lastQuery)
                /\ Get(context.lastQuery).objectType # << >>
                /\ Get(context.lastQuery).objectLabel # << >>
        THEN [st |-> c.st, objectType |-> Get(context.lastQuery).objectType,
              label |-> Get(context.lastQuery).objectLabel]
        ELSE [st |-> c.st, objectType |-> projects, label |-> <<"P", "r", "o", "j", "e", "c", "t", "s">>]))

FieldHint_lastMatch(metadata, userMessage) ==
    LET userLower == ToLower(userMessage)
        Mentioned(attr) == \/ Includes(userMessage, attr.displayName)
                           \/ Includes(userLower, ToLower(attr.displayName))
                           \/ Includes(userLower, ToLower(attr.apiName))
        matches == SelectSeq(metadata.attributes, Mentioned)
    IN  IF Len(matches) > 0 THEN matches[Len(matches)].apiName ELSE << >>

\* getAIPlan, lines 1068-1083: foundFieldApiName, '' when no attribute of the
\* target object's schema is mentioned
FieldHint(metadata, userMessage) ==
    LET userLower == ToLower(userMessage)
        Mentioned(attr) == \/ Includes(userMessage, attr.displayName)
                           \/ Includes(userLower, ToLower(attr.displayName))
                           \/ Includes(userLower, ToLower(attr.apiName))
        found == FirstIndex(metadata.attributes, Mentioned)
    IN  IF found # 0 THEN metadata.attributes[found].apiName ELSE << >>

\* APIPlan, as far as the executors read it; endpoint, groupByField and the
\* name of the body may be missing from the reply.
Plan(action, objectType, endpoint, groupByField, name) ==
    [action |-> action, objectType |-> objectType, endpoint |-> endpoint,
     groupByField |-> groupByField, name |-> name]

\* What the reasoning service does: it fails, or it replies with no text
\* block, with text that holds no braces, with braces that are no JSON, or
\* with a plan.
AIReply(kind, plan) == [kind |-> kind, plan |-> plan]
NoPlan == Plan(<< >>, projects, None, None, None)
AIFailures == {AIReply(k, NoPlan) : k \in {"error", "nonText", "noJson", "invalidJson"}}
PlanReply(action, objectType, endpoint, groupByField, name) ==
    AIReply("plan", Plan(action, objectType, endpoint, groupByField, name))

\* JSON.parse of "{oops}"
JsonSyntaxError == <<"E", "x", "p", "e", "c", "t", "e", "d", " ", "p", "r", "o",
                     "p", "e", "r", "t", "y", " ", "n", "a", "m", "e", " ", "o",
                     "r", " ", "'", "}", "'", " ", "i", "n", " ", "J", "S", "O",
                     "N", " ", "a", "t", " ", "p", "o", "s", "i", "t", "i", "o",
                     "n", " ", "1">>

\* getAIPlan, lines 1169-1174
Forced(plan, foundFieldApiName) ==
    IF foundFieldApiName # << >> /\ plan.action = <<"a", "n", "a", "l", "y", "z", "e">>
    THEN [plan EXCEPT !.groupByField = Some(foundFieldApiName)]
    ELSE plan

\* getAIPlan; o holds what the collaborators do when they are asked.  The
\* value is the plan, with the target object the prompt was built for.
getAIPlan(st, userMessage, sessionId, t, o) ==
    With(detectTargetObject(st, userMessage, sessionId, t, o.discovery), LAMBDA target :
    With(getObjectMetadata(target.st, target.objectType, o.schemaTarget), LAMBDA m :
    With(CustomObjects(m.st, t, o.discovery), LAMBDA c :
    LET foundFieldApiName == FieldHint(Get(m.value), userMessage)
        asked == [c.st EXCEPT !.ai = @ + 1]
    IN  IF IsSome(m.threw) THEN Failed(m.st, Get(m.threw))
        ELSE CASE o.reply.kind = "error" -> Failed(asked, ReasoningError)
               [] o.reply.kind = "nonText" ->
                    Failed(asked, <<"U", "n", "e", "x", "p", "e", "c", "t", "e", "d", " ", "r",
                                    "e", "s", "p", "o", "n", "s", "e", " ", "t", "y", "p", "e",
                                    " ", "f", "r", "o", "m", " ", "A", "I">>)
               [] o.reply.kind = "noJson" ->
                    Failed(asked, <<"C", "o", "u", "l", "d", " ", "n", "o", "t", " ", "p", "a",
                                    "r", "s", "e", " ", "A", "I", " ", "r", "e", "s", "p", "o",
                                    "n", "s", "e", " ", "a", "s", " ", "J", "S", "O", "N">>)
               [] o.reply.kind = "invalidJson" -> Failed(asked, JsonSyntaxError)
               [] OTHER -> Computed(asked, [plan |-> Forced(o.reply.plan, foundFieldApiName),
                                            target |-> target.objectType]))))

----------------------------------------------------------------------------
\* The executors of a plan.  Each returns success, reply and chartData.

Result(success, reply, chartData) ==
    [success |-> success, reply |-> reply, chartData |-> chartData]

\* executeDescribe
executeDescribe(st, plan, o) ==
    With(getObjectMetadata(st, plan.objectType, o.schemaPlan), LAMBDA m :
    LET metadata == Get(m.value)
        groupableFields == getGroupableFields(metadata)
        IsLookup(a) == a.isLookup
        IsKey(a) == ~StartsWith(a.apiName, <<"_">>) \/ a.apiName = <<"_", "i", "n", "t", "e", "r", "n", "a", "l", "I", "d">>
        keyFields == SliceFirst(SelectSeq(metadata.attributes, IsKey), 15)
    IN  IF IsSome(m.threw) THEN Threw(m.st, Get(m.threw))
        ELSE Returned(m.st, Some(Result(TRUE,
                 <<"U+D83D", "U+DCCB", " ", "*", "*">> \o metadata.label \o <<"*", "*", " ", "(", "U+0060">> \o metadata.resourceName \o <<"U+0060", ")", "\n", "\n">>
                 \o <<"*", "*", "T", "o", "t", "a", "l", " ", "F", "i", "e", "l",
                      "d", "s", ":", "*", "*", " ">> \o Numeral(Len(metadata.attributes)) \o <<"\n">>
                 \o <<"*", "*", "G", "r", "o", "u", "p", "a", "b", "l", "e", " ",
                      "F", "i", "e", "l", "d", "s", ":", "*", "*", " ">> \o Numeral(Len(groupableFields)) \o <<"\n">>
                 \o <<"*", "*", "L", "o", "o", "k", "u", "p", " ", "F", "i", "e",
                      "l", "d", "s", ":", "*", "*", " ">>
                 \o Numeral(Len(SelectSeq(metadata.attributes, IsLookup))) \o <<"\n", "\n">>
                 \o <<"*", "*", "K", "e", "y", " ", "F", "i", "e", "l", "d", "s", ":", "*", "*", "\n">>
                 \o Flatten([i \in 1..Len(keyFields) |->
                       <<"U+2022", " ", "*", "*">> \o keyFields[i].displayName \o <<"*", "*", " ", "(", "U+0060">>
                       \o keyFields[i].apiName \o <<"U+0060", ")", " ", "-", " ">> \o keyFields[i].dataType
                       \o (IF keyFields[i].isLookup THEN <<" ", "U+D83D", "U+DD17">> ELSE << >>) \o <<"\n">>]),
                 None))))

\* The index of the first "limit=" that a digit follows, 0 when there is none.
LimitAt(endpoint) ==
    LET At(i) == /\ i + 6 <= Len(endpoint)
                 /\ SubSeq(endpoint, i, i + 5) = <<"l", "i", "m", "i", "t", "=">>
                 /\ IsDigit(endpoint[i + 6])
    IN  IF \E i \in 1..Len(endpoint) : At(i)
        THEN CHOOSE i \in 1..Len(endpoint) : At(i) /\ \A j \in 1..(i - 1) : ~At(j)
        ELSE 0

RECURSIVE DigitsEnd(_, _)
\* The index of the last digit of the run of digits that starts at i.
DigitsEnd(t, i) == IF i < Len(t) /\ IsDigit(t[i + 1]) THEN DigitsEnd(t, i + 1) ELSE i

RECURSIVE ParseInt(_)
ParseInt(digits) ==
    IF Len(digits) = 0 THEN 0
    ELSE 10 * ParseInt(SubSeq(digits, 1, Len(digits) - 1))
         + IndexOf(Digits, digits[Len(digits)])

\* executeQuery, lines 1251-1254: endpoint.replace(/limit=\d+/, ...)
ClampLimit(endpoint) ==
    LET i == LimitAt(endpoint)
        j == DigitsEnd(endpoint, i + 6)
        limit == ParseInt(SubSeq(endpoint, i + 6, j))
    IN  IF i = 0 THEN endpoint
        ELSE SubSeq(endpoint, 1, i + 5) \o Numeral(Min(limit, 500))
             \o SubSeq(endpoint, j + 1, Len(endpoint))

\* What the remote system answers to the lookup of findRecord.
RecordOutcomes == {"found", "foundUnnamed", "none", "fails"}

\* findRecord: the record found (or null); the call is made by the caller
findRecord(outcome) ==
    CASE outcome = "found" -> Some([_internalId |-> 101, name |-> Some(<<"A", "p", "o", "l", "l", "o">>)])
      [] outcome = "foundUnnamed" -> Some([_internalId |-> 102, name |-> None])
      [] OTHER -> None

FindRecordCall(objectType, nameOrCode) ==
    Call("findRecord", "GET",
         <<"/">> \o objectType \o <<"?", "f", "i", "l", "t", "e", "r", "=", "(", "(", "c", "o",
                                  "d", "e", " ", "=", " ", "'">> \o nameOrCode \o <<"'", ")", " ", "o", "r", " ", "(", "n", "a", "m", "e", " ", "=", " ", "'">>
         \o nameOrCode \o <<"'", ")", ")", "&", "f", "i", "e", "l", "d", "s", "=", "_",
                            "i", "n", "t", "e", "r", "n", "a", "l", "I", "d", ",", "n",
                            "a", "m", "e", "&", "l", "i", "m", "i", "t", "=", "1">>)

\* TypeError of endpoint.replace and endpoint.includes when the plan has no endpoint
NoEndpointError(method) ==
    <<"C", "a", "n", "n", "o", "t", " ", "r", "e", "a", "d", " ",
      "p", "r", "o", "p", "e", "r", "t", "i", "e", "s", " ", "o",
      "f", " ", "u", "n", "d", "e", "f", "i", "n", "e", "d", " ",
      "(", "r", "e", "a", "d", "i", "n", "g", " ", "'">> \o method \o <<"'", ")">>

\* executeQuery
executeQuery(st, plan, originalMessage, sessionId, t, o) ==
    LET clamped == ClampLimit(Get(plan.endpoint))
        projectName == extractProjectName(originalMessage)
        found == findRecord(o.record)
        looked == WithCalls(st, <<FindRecordCall(projects, Get(projectName))>>)
        needsProject == Includes(clamped, <<"{", "p", "r", "o", "j", "e", "c", "t", "I", "d", "}">>)
        \* no endpoint of the model holds {projectId} twice or before its limit
        endpoint == IF needsProject
                    THEN LET At(i) == SubSeq(clamped, i, i + 10) = <<"{", "p", "r", "o", "j", "e", "c", "t", "I", "d", "}">>
                             i == CHOOSE k \in 1..Len(clamped) : At(k)
                         IN  SubSeq(clamped, 1, i - 1) \o Numeral(Get(found)._internalId)
                             \o SubSeq(clamped, i + 11, Len(clamped))
                    ELSE clamped
        st1 == IF needsProject THEN looked ELSE st
        called == WithCalls(st1, <<Call("executeQuery", "GET", endpoint)>>)
        records == ResultsOf(o.list.response)
        totalCount == TotalCountOf(o.list.response)
    IN
    With(ObjectLabel(called, plan.objectType, o.schemaPlan), LAMBDA l :
    LET label == l.value
        stored == [l.st EXCEPT !.contexts =
                      updateLastQuery(@, sessionId,
                          QueryMemory(plan.objectType, label, "query", None, Some(records),
                                      Some(totalCount), None, None, None, ToISOString(t)))]
    IN  IF ~IsSome(plan.endpoint) THEN Threw(st, NoEndpointError(<<"r", "e", "p", "l", "a", "c", "e">>))
        ELSE IF needsProject /\ ~IsSome(projectName)
        THEN Returned(st, Some(Result(FALSE, <<"U+274C", " ", "P", "l", "e", "a", "s", "e", " ", "s", "p",
                                        "e", "c", "i", "f", "y", " ", "a", " ", "p", "r", "o", "j",
                                        "e", "c", "t", " ", "n", "a", "m", "e">>, None)))
        ELSE IF needsProject /\ ~IsSome(found)
        THEN Returned(looked, Some(Result(FALSE,
                 <<"U+274C", " ", "C", "o", "u", "l", "d", " ", "n", "o", "t",
                   " ", "f", "i", "n", "d", " ", "p", "r", "o", "j", "e", "c",
                   "t", " ", "\"">> \o Get(projectName) \o <<"\"">>, None)))
        ELSE IF IsSome(o.list.threw)
        THEN Returned(called, Some(Result(FALSE,
                 <<"U+274C", " ", "Q", "u", "e", "r", "y", " ", "f", "a", "i", "l", "e", "d", ":", " ">> \o Get(o.list.threw), None)))
        ELSE IF Includes(endpoint, <<"l", "i", "m", "i", "t", "=", "1">>) /\ ~Includes(endpoint, <<"l", "i", "m", "i", "t", "=", "1", "0">>)
        THEN Returned(stored, Some(Result(TRUE,
                 <<"U+D83D", "U+DCCA", " ", "*", "*", "F", "o", "u", "n", "d", " ">> \o Numeral(totalCount) \o <<" ">> \o label \o <<"*", "*">>
                 \o (IF IsSome(projectName)
                     THEN <<" ", "i", "n", " ", "p", "r", "o", "j", "e", "c", "t", " ", "\"">> \o Get(projectName) \o <<"\"">> ELSE << >>),
                 None)))
        ELSE Returned(stored, Some(Result(TRUE,
                 <<"U+2705", " ", "*", "*">> \o Numeral(totalCount) \o <<" ">> \o label \o <<"*", "*", "\n", "\n">>
                 \o RecordLines(records, totalCount),
                 None))))

----------------------------------------------------------------------------
\* executeAnalyze: the distribution of a field.

\* Records fetched for one analysis.
MaxRecords == 3

\* The values of the grouped field in the records of the remote system.
Completed == RawObject(Some(<<"C", "o", "m", "p", "l", "e", "t", "e", "d">>), Some(<<"D", "O", "N", "E">>), <<"{", "}">>)
FieldValues == {RawNull, RawString(<<"A", "c", "t", "i", "v", "e">>), Completed}
Datasets == UNION {[1..n -> FieldValues] : n \in 0..MaxRecords}

\* What the remote system answers to the query of an analysis: an error, a
\* response without _results, or the records as the values of the field.
AnalyzeOutcomes ==
    {[threw |-> Some(ServerError), results |-> None], [threw |-> None, results |-> None]}
    \cup {[threw |-> None, results |-> Some(d)] : d \in Datasets}

NoValue == <<"(", "N", "o", " ", "v", "a", "l", "u", "e", ")">>

\* executeAnalyze, line 1364
DisplayValue(rawValue) ==
    IF formatFieldValue(rawValue) # << >> THEN formatFieldValue(rawValue) ELSE NoValue

RECURSIVE BuildDistribution(_, _)
\* executeAnalyze, lines 1361-1366: the Map, as its entries in insertion order
BuildDistribution(distribution, values) ==
    IF Len(values) = 0 THEN distribution
    ELSE LET displayValue == DisplayValue(values[1])
             Labelled(item) == item.label = displayValue
             i == FirstIndex(distribution, Labelled)
         IN  BuildDistribution(
                 IF i = 0 THEN Append(distribution, [label |-> displayValue, value |-> 1])
                 ELSE [distribution EXCEPT ![i].value = @ + 1],
                 Tail(values))

RECURSIVE InsertByValue(_, _)
\* x goes before the first item of a smaller value: a stable sort
InsertByValue(sorted, x) ==
    IF Len(sorted) = 0 THEN <<x>>
    ELSE IF sorted[1].value < x.value THEN <<x>> \o sorted
    ELSE <<sorted[1]>> \o InsertByValue(Tail(sorted), x)

RECURSIVE SortByValue(_, _)
SortByValue(sorted, rest) ==
    IF Len(rest) = 0 THEN sorted
    ELSE SortByValue(InsertByValue(sorted, rest[1]), Tail(rest))

ChartDataArray_unsorted(records) == BuildDistribution(<< >>, records)

\* executeAnalyze, lines 1361-1370
ChartDataArray(records) == SortByValue(<< >>, BuildDistribution(<< >>, records))

\* ((value / total) * 100).toFixed(1); no percentage of fewer than 32 records
\* lies halfway between two tenths
Percent(value, total) ==
    LET tenths == (2000 * value + total) \div (2 * total)
    IN  Numeral(tenths \div 10) \o <<".">> \o Numeral(tenths % 10)

\* executeAnalyze, lines 1334-1337
FieldIndex(metadata, groupByField) ==
    LET Same(a) == \/ ToLower(a.apiName) = ToLower(groupByField)
                   \/ ToLower(a.displayName) = ToLower(groupByField)
    IN  FirstIndex(metadata.attributes, Same)

Suggestions_all(metadata) == getGroupableFields(metadata)

\* executeAnalyze, lines 1340-1341: the fields offered instead
Suggestions(metadata) == SliceFirst(getGroupableFields(metadata), 15)

\* executeAnalyze, line 1354
AnalyzeEndpoint(objectType, actualFieldName) ==
    <<"/">> \o objectType \o <<"?", "f", "i", "e", "l", "d", "s", "=", "_", "i", "n", "t",
                             "e", "r", "n", "a", "l", "I", "d", ",">> \o actualFieldName \o <<"&", "l", "i", "m", "i", "t", "=", "5", "0", "0">>

\* executeAnalyze
executeAnalyze(st, plan, sessionId, t, o) ==
    LET groupByField == IF IsSome(plan.groupByField) THEN Get(plan.groupByField)
                        ELSE <<"s", "t", "a", "t", "u", "s">>
    IN
    With(getObjectMetadata(st, plan.objectType, o.schemaPlan), LAMBDA m :
    LET metadata == Get(m.value)
    IN
    With(FieldIndex(metadata, groupByField), LAMBDA found :
    LET fieldMeta == metadata.attributes[found]
    IN
    With(Suggestions(metadata), LAMBDA suggestions :
    LET actualFieldName == fieldMeta.apiName
        called == WithCalls(m.st, <<Call("executeAnalyze", "GET",
                                         AnalyzeEndpoint(plan.objectType, actualFieldName))>>)
        records == IF IsSome(o.data.results) THEN Get(o.data.results) ELSE << >>
    IN
    With(ChartDataArray(records), LAMBDA chartDataArray :
    With(ObjectLabel(called, plan.objectType, o.schemaPlan), LAMBDA l :
    LET label == l.value
        fieldDisplayName == fieldMeta.displayName
        chart == <<[key |-> actualFieldName, value |-> chartDataArray]>>
        stored == [l.st EXCEPT !.contexts =
                      updateLastQuery(@, sessionId,
                          QueryMemory(plan.objectType, label, "analyze", None, None,
                                      Some(Len(records)), Some(actualFieldName),
                                      Some(fieldDisplayName), Some(chart), ToISOString(t)))]
        shown == SliceFirst(chartDataArray, 10)
    IN  IF IsSome(m.threw) THEN Threw(m.st, Get(m.threw))
        ELSE IF found = 0
        THEN Returned(m.st, Some(Result(FALSE,
                 <<"U+274C", " ", "F", "i", "e", "l", "d", " ", "\"">> \o groupByField \o <<"\"", " ", "n", "o", "t", " ", "f", "o", "u", "n", "d", " ", "i", "n", " ">> \o metadata.label
                 \o <<".", "\n", "\n", "*", "*", "A", "v", "a", "i", "l", "a", "b",
                      "l", "e", " ", "f", "i", "e", "l", "d", "s", ":", "*", "*",
                      "\n", "U+2022", " ">>
                 \o Join([i \in 1..Len(suggestions) |->
                             <<"U+0060">> \o suggestions[i].apiName \o <<"U+0060", " ", "(">>
                             \o suggestions[i].displayName \o <<")">>],
                         <<"\n", "U+2022", " ">>),
                 None)))
        ELSE IF IsSome(o.data.threw)
        THEN Returned(called, Some(Result(FALSE,
                 <<"U+274C", " ", "C", "o", "u", "l", "d", " ", "n", "o", "t",
                   " ", "q", "u", "e", "r", "y", " ", "f", "i", "e", "l", "d",
                   " ", "\"">> \o actualFieldName \o <<"\"", ".", "\n", "\n", "*", "*", "T", "r", "y", ":", "*", "*", " ">>
                 \o Join([i \in 1..Len(SliceFirst(getGroupableFields(metadata), 10)) |->
                             <<"U+0060">> \o getGroupableFields(metadata)[i].apiName \o <<"U+0060">>],
                         <<",", " ">>),
                 None)))
        ELSE Returned(stored, Some(Result(TRUE,
                 <<"U+D83D", "U+DCCA", " ", "*", "*">> \o label \o <<" ", "b", "y", " ">> \o fieldDisplayName \o <<"*", "*", " ", "(">>
                 \o Numeral(Len(records)) \o <<" ", "r", "e", "c", "o", "r", "d", "s", ")", "\n", "\n">>
                 \o Flatten([i \in 1..Len(shown) |->
                       <<"U+2022", " ", "*", "*">> \o shown[i].label \o <<":", "*", "*", " ">> \o Numeral(shown[i].value)
                       \o <<" ", "(">> \o Percent(shown[i].value, Len(records)) \o <<"%", ")", "\n">>])
                 \o (IF Len(chartDataArray) > 10
                     THEN <<"\n", "_", ".", ".", ".", "a", "n", "d", " ">> \o Numeral(Len(chartDataArray) - 10)
                          \o <<" ", "m", "o", "r", "e", " ", "c", "a", "t", "e", "g", "o", "r", "i", "e", "s", "_">>
                     ELSE << >>)
                 \o <<"\n", "\n", "U+2728", " ", "C", "l", "i", "c", "k", " ", "o",
                      "n", " ", "a", "n", "y", " ", "v", "a", "l", "u", "e", " ",
                      "t", "o", " ", "s", "e", "e", " ", "t", "h", "e", " ", "r",
                      "e", "c", "o", "r", "d", "s">>,
                 Some([groupableFields |-> <<actualFieldName>>,
                       chartData |-> chart,
                       fieldMetadata |-> <<[key |-> actualFieldName,
                                            value |-> [displayName |-> fieldDisplayName,
                                                       dataType |-> fieldMeta.dataType]]>>,
                       drillDownEnabled |-> TRUE,
                       objectType |-> plan.objectType,
                       groupByField |-> actualFieldName])))))))))

----------------------------------------------------------------------------
\* executeCreate, executeUpdate, executeDelete.

\* What the remote system does with a POST, PATCH or DELETE.
MutationOutcomes == {"ok", "fails"}

\* /\/projects\/\d+/.test(endpoint)
HasProjectId(endpoint) ==
    \E i \in 1..Len(endpoint) :
        /\ i + 10 <= Len(endpoint)
        /\ SubSeq(endpoint, i, i + 9) = <<"/", "p", "r", "o", "j", "e", "c", "t", "s", "/">>
        /\ IsDigit(endpoint[i + 10])

\* executeCreate; the request body is not part of a call of the model
executeCreate(st, plan, originalMessage, o) ==
    LET endpoint == Get(plan.endpoint)
        projectName == extractProjectName(originalMessage)
        inProject == /\ Includes(endpoint, <<"/", "p", "r", "o", "j", "e", "c", "t", "s", "/">>) /\ ~HasProjectId(endpoint)
                     /\ IsSome(projectName)
        looked == WithCalls(st, <<FindRecordCall(projects, Get(projectName))>>)
        st1 == IF inProject THEN looked ELSE st
        name == IF Truthy(plan.name) THEN plan.name ELSE CreateName(originalMessage)
        \* the endpoint is posted to as the plan gives it: no message of the
        \* model names a project to put in its place
        called == WithCalls(st1, <<Call("executeCreate", "POST", endpoint)>>)
    IN
    With(ObjectLabel(called, plan.objectType, o.schemaPlan), LAMBDA l :
        IF ~IsSome(plan.endpoint) THEN Threw(st, NoEndpointError(<<"i", "n", "c", "l", "u", "d", "e", "s">>))
        ELSE IF inProject /\ ~IsSome(findRecord(o.record))
        THEN Returned(looked, Some(Result(FALSE,
                 <<"U+274C", " ", "C", "o", "u", "l", "d", " ", "n", "o", "t",
                   " ", "f", "i", "n", "d", " ", "p", "r", "o", "j", "e", "c",
                   "t", " ", "\"">> \o Get(projectName) \o <<"\"">>, None)))
        ELSE IF o.mutation = "fails" THEN Threw(called, ServerError)
        ELSE Returned(l.st, Some(Result(TRUE,
                 <<"U+2705", " ", "*", "*">> \o l.value \o <<" ", "C", "r", "e", "a", "t", "e", "d", "!", "*", "*", "\n",
                                        "\n", "U+2022", " ", "*", "*", "N", "a", "m", "e", ":", "*",
                                        "*", " ">>
                 \o (IF IsSome(name) THEN Get(name) ELSE <<"u", "n", "d", "e", "f", "i", "n", "e", "d">>)
                 \o <<"\n", "U+2022", " ", "*", "*", "I", "D", ":", "*", "*", " ">> \o Numeral(103),
                 None))))

\* executeUpdate
executeUpdate(st, plan, originalMessage, o) ==
    LET recordName == extractRecordName(originalMessage)
        record == findRecord(o.record)
        looked == WithCalls(st, <<FindRecordCall(plan.objectType, Get(recordName))>>)
        called == WithCalls(looked,
                      <<Call("executeUpdate", "PATCH",
                             <<"/">> \o plan.objectType \o <<"/">>
                             \o Numeral(Get(record)._internalId))>>)
    IN
    With(ObjectLabel(called, plan.objectType, o.schemaPlan), LAMBDA l :
        IF ~Truthy(recordName)
        THEN Returned(st, Some(Result(FALSE,
                 <<"U+274C", " ", "C", "o", "u", "l", "d", " ", "n", "o", "t",
                   " ", "d", "e", "t", "e", "r", "m", "i", "n", "e", " ", "w",
                   "h", "i", "c", "h", " ", "r", "e", "c", "o", "r", "d", " ",
                   "t", "o", " ", "u", "p", "d", "a", "t", "e">>, None)))
        ELSE IF ~IsSome(record)
        THEN Returned(looked, Some(Result(FALSE,
                 <<"U+274C", " ", "C", "o", "u", "l", "d", " ", "n", "o", "t",
                   " ", "f", "i", "n", "d", " ">> \o plan.objectType \o <<" ", "\"">> \o Get(recordName)
                 \o <<"\"">>, None)))
        ELSE IF o.mutation = "fails" THEN Threw(called, ServerError)
        ELSE Returned(l.st, Some(Result(TRUE,
                 <<"U+2705", " ", "*", "*">> \o l.value \o <<" ", "U", "p", "d", "a", "t", "e", "d", "!", "*", "*", "\n",
                                        "\n", "U+2022", " ", "*", "*", "R", "e", "c", "o", "r", "d",
                                        ":", "*", "*", " ">>
                 \o (IF IsSome(Get(record).name) THEN Get(Get(record).name)
                     ELSE Get(recordName)),
                 None))))

\* executeDelete
executeDelete(st, plan, originalMessage, o) ==
    LET recordName == extractRecordName(originalMessage)
        record == findRecord(o.record)
        looked == WithCalls(st, <<FindRecordCall(plan.objectType, Get(recordName))>>)
        called == WithCalls(looked,
                      <<Call("executeDelete", "DELETE",
                             <<"/">> \o plan.objectType \o <<"/">>
                             \o Numeral(Get(record)._internalId))>>)
    IN
    With(ObjectLabel(called, plan.objectType, o.schemaPlan), LAMBDA l :
        IF ~Truthy(recordName)
        THEN Returned(st, Some(Result(FALSE,
                 <<"U+274C", " ", "C", "o", "u", "l", "d", " ", "n", "o", "t",
                   " ", "d", "e", "t", "e", "r", "m", "i", "n", "e", " ", "w",
                   "h", "i", "c", "h", " ", "r", "e", "c", "o", "r", "d", " ",
                   "t", "o", " ", "d", "e", "l", "e", "t", "e">>, None)))
        ELSE IF ~IsSome(record)
        THEN Returned(looked, Some(Result(FALSE,
                 <<"U+274C", " ", "C", "o", "u", "l", "d", " ", "n", "o", "t",
                   " ", "f", "i", "n", "d", " ">> \o plan.objectType \o <<" ", "\"">> \o Get(recordName)
                 \o <<"\"">>, None)))
        ELSE IF o.mutation = "fails" THEN Threw(called, ServerError)
        ELSE Returned(l.st, Some(Result(TRUE,
                 <<"U+2705", " ", "*", "*">> \o l.value \o <<" ", "D", "e", "l", "e", "t", "e", "d", "!", "*", "*", "\n",
                                        "\n", "U+2022", " ", "*", "*", "I", "D", ":", "*", "*", " ">>
                 \o Numeral(Get(record)._internalId),
                 None))))

\* executePlan
executePlan_remembersMutations(st, plan, originalMessage, sessionId, t, o) ==
    LET Remembered(r) ==
            [r EXCEPT !.st.contexts =
                updateLastQuery(@, sessionId,
                    QueryMemory(plan.objectType, plan.objectType, plan.action, None, None,
                                None, None, None, None, ToISOString(t)))]
    IN
    CASE plan.action = <<"h", "e", "l", "p">> ->
           With(getHelpResponse(st, << >>, t, o.discovery, o.caps), LAMBDA r :
           LET help == Get(r.response)
           IN  Returned(r.st, Some(Result(help.success, help.reply, help.chartData))))
      [] plan.action = <<"d", "e", "s", "c", "r", "i", "b", "e">> -> executeDescribe(st, plan, o)
      [] plan.action = <<"q", "u", "e", "r", "y">> -> executeQuery(st, plan, originalMessage, sessionId, t, o)
      [] plan.action = <<"a", "n", "a", "l", "y", "z", "e">> -> executeAnalyze(st, plan, sessionId, t, o)
      [] plan.action = <<"c", "r", "e", "a", "t", "e">> -> Remembered(executeCreate(st, plan, originalMessage, o))
      [] plan.action = <<"u", "p", "d", "a", "t", "e">> -> Remembered(executeUpdate(st, plan, originalMessage, o))
      [] plan.action = <<"d", "e", "l", "e", "t", "e">> -> Remembered(executeDelete(st, plan, originalMessage, o))
      [] OTHER -> Returned(st, Some(Result(FALSE,
                      <<"U+274C", " ", "U", "n", "k", "n", "o", "w", "n", " ", "a",
                        "c", "t", "i", "o", "n", ":", " ">> \o plan.action, None)))

executePlan_describeForgets(st, plan, originalMessage, sessionId, t, o) ==
    LET Forgotten(r) ==
            [r EXCEPT !.st.contexts =
                [r.st.contexts EXCEPT ![sessionId] =
                    Some([getContext(r.st.contexts, sessionId) EXCEPT !.lastQuery = None])]]
    IN
    CASE plan.action = <<"h", "e", "l", "p">> ->
           With(getHelpResponse(st, << >>, t, o.discovery, o.caps), LAMBDA r :
           LET help == Get(r.response)
           IN  Forgotten(Returned(r.st, Some(Result(help.success, help.reply, help.chartData)))))
      [] plan.action = <<"d", "e", "s", "c", "r", "i", "b", "e">> -> Forgotten(executeDescribe(st, plan, o))
      [] plan.action = <<"q", "u", "e", "r", "y">> -> executeQuery(st, plan, originalMessage, sessionId, t, o)
      [] plan.action = <<"a", "n", "a", "l", "y", "z", "e">> -> executeAnalyze(st, plan, sessionId, t, o)
      [] plan.action = <<"c", "r", "e", "a", "t", "e">> -> executeCreate(st, plan, originalMessage, o)
      [] plan.action = <<"u", "p", "d", "a", "t", "e">> -> executeUpdate(st, plan, originalMessage, o)
      [] plan.action = <<"d", "e", "l", "e", "t", "e">> -> executeDelete(st, plan, originalMessage, o)
      [] OTHER -> Returned(st, Some(Result(FALSE,
                      <<"U+274C", " ", "U", "n", "k", "n", "o", "w", "n", " ", "a",
                        "c", "t", "i", "o", "n", ":", " ">> \o plan.action, None)))

\* executePlan, lines 1183-1217: the executor of the action of the plan
executePlan(st, plan, originalMessage, sessionId, t, o) ==
    CASE plan.action = <<"h", "e", "l", "p">> ->
           With(getHelpResponse(st, << >>, t, o.discovery, o.caps), LAMBDA r :
           LET help == Get(r.response)
           IN  Returned(r.st, Some(Result(help.success, help.reply, help.chartData))))
      [] plan.action = <<"d", "e", "s", "c", "r", "i", "b", "e">> -> executeDescribe(st, plan, o)
      [] plan.action = <<"q", "u", "e", "r", "y">> -> executeQuery(st, plan, originalMessage, sessionId, t, o)
      [] plan.action = <<"a", "n", "a", "l", "y", "z", "e">> -> executeAnalyze(st, plan, sessionId, t, o)
      [] plan.action = <<"c", "r", "e", "a", "t", "e">> -> executeCreate(st, plan, originalMessage, o)
      [] plan.action = <<"u", "p", "d", "a", "t", "e">> -> executeUpdate(st, plan, originalMessage, o)
      [] plan.action = <<"d", "e", "l", "e", "t", "e">> -> executeDelete(st, plan, originalMessage, o)
      [] OTHER -> Returned(st, Some(Result(FALSE,
                      <<"U+274C", " ", "U", "n", "k", "n", "o", "w", "n", " ", "a",
                        "c", "t", "i", "o", "n", ":", " ">> \o plan.action, None)))

----------------------------------------------------------------------------
\* handleMessage.

\* getErrorResponse, lines 833-855: suggestions and hint by the kind of error
ErrorAdvice(errorMessage) ==
    IF Includes(errorMessage, <<"4", "0", "4">>) \/ Includes(errorMessage, <<"n", "o", "t", " ", "f", "o", "u", "n", "d">>)
    THEN [suggestions |-> << <<"L", "i", "s", "t", " ", "a", "l", "l", " ", "a", "v", "a",
                               "i", "l", "a", "b", "l", "e", " ", "o", "b", "j", "e", "c",
                               "t", "s">>, <<"S", "h", "o", "w", " ", "c", "u", "s", "t", "o", "m", " ",
                                        "o", "b", "j", "e", "c", "t", "s">>,
                             <<"D", "e", "s", "c", "r", "i", "b", "e", " ", "p", "r", "o", "j", "e", "c", "t", "s">> >>,
          hint |-> <<"T", "h", "e", " ", "o", "b", "j", "e", "c", "t", " ", "o",
                     "r", " ", "f", "i", "e", "l", "d", " ", "m", "i", "g", "h",
                     "t", " ", "n", "o", "t", " ", "e", "x", "i", "s", "t", ".">>]
    ELSE IF \/ Includes(errorMessage, <<"4", "0", "1">>) \/ Includes(errorMessage, <<"4", "0", "3">>)
            \/ Includes(errorMessage, <<"a", "u", "t", "h">>)
    THEN [suggestions |-> << <<"C", "h", "e", "c", "k", " ", "A", "P", "I", " ", "c", "r",
                               "e", "d", "e", "n", "t", "i", "a", "l", "s">>, <<"V", "e", "r", "i", "f", "y", " ", "p", "e", "r", "m", "i",
                                        "s", "s", "i", "o", "n", "s">> >>,
          hint |-> <<"T", "h", "e", "r", "e", " ", "m", "i", "g", "h", "t", " ",
                     "b", "e", " ", "a", "n", " ", "a", "u", "t", "h", "e", "n",
                     "t", "i", "c", "a", "t", "i", "o", "n", " ", "o", "r", " ",
                     "p", "e", "r", "m", "i", "s", "s", "i", "o", "n", " ", "i",
                     "s", "s", "u", "e", ".">>]
    ELSE IF Includes(errorMessage, <<"t", "i", "m", "e", "o", "u", "t">>) \/ Includes(errorMessage, <<"E", "C", "O", "N", "N", "R", "E", "F", "U", "S", "E", "D">>)
    THEN [suggestions |-> << <<"T", "r", "y", " ", "a", "g", "a", "i", "n", " ", "i", "n",
                               " ", "a", " ", "m", "o", "m", "e", "n", "t">>, <<"C", "h", "e", "c", "k", " ", "C", "l", "a", "r", "i", "t",
                                        "y", " ", "s", "e", "r", "v", "e", "r", " ", "s", "t", "a",
                                        "t", "u", "s">> >>,
          hint |-> <<"T", "h", "e", " ", "C", "l", "a", "r", "i", "t", "y", " ",
                     "s", "e", "r", "v", "e", "r", " ", "m", "i", "g", "h", "t",
                     " ", "b", "e", " ", "t", "e", "m", "p", "o", "r", "a", "r",
                     "i", "l", "y", " ", "u", "n", "a", "v", "a", "i", "l", "a",
                     "b", "l", "e", ".">>]
    ELSE [suggestions |-> << <<"T", "r", "y", " ", "a", " ", "s", "i", "m", "p", "l", "e",
                               "r", " ", "q", "u", "e", "r", "y">>, <<"L", "i", "s", "t", " ", "p", "r", "o", "j", "e", "c", "t", "s">>,
                             <<"S", "h", "o", "w", " ", "c", "u", "s", "t", "o", "m", " ",
                               "o", "b", "j", "e", "c", "t", "s">> >>,
          hint |-> << >>]

\* getErrorResponse
getErrorResponse(errorMessage, timestamp) ==
    LET advice == ErrorAdvice(errorMessage)
    IN  Response(FALSE,
            <<"U+274C", " ", "*", "*", "S", "o", "m", "e", "t", "h", "i",
              "n", "g", " ", "w", "e", "n", "t", " ", "w", "r", "o", "n",
              "g", "*", "*", "\n", "\n">>
            \o advice.hint \o <<"\n", "\n">>
            \o <<"*", "*", "E", "r", "r", "o", "r", ":", "*", "*", " ">> \o Substring(errorMessage, 200) \o <<"\n", "\n">>
            \o <<"U+D83D", "U+DCA1", " ", "*", "*", "T", "r", "y", " ", "i",
                 "n", "s", "t", "e", "a", "d", ":", "*", "*", "\n">>
            \o Join([i \in 1..Len(advice.suggestions) |->
                        <<"U+2022", " ", "\"">> \o advice.suggestions[i] \o <<"\"">>],
                    <<"\n">>),
            None, None, timestamp)

\* An assistant turn of the history; a link turn has no objectType.
AssistantTurn(ts, message, action, objectType, success) ==
    [timestamp |-> ts, role |-> "assistant", message |-> message, action |-> action,
     objectType |-> objectType, success |-> success]

\* What handleMessage leaves and returns: the state after it, the response
\* (None when it throws), the step that answered and, if a plan was made, the
\* plan and the target object it was made for.
Outcome(st, response, path, plan, target) ==
    [st |-> st, response |-> response, path |-> path, plan |-> plan, target |-> target]

Caught_rethrown(st, error, timestamp) == Outcome(st, None, "error", None, None)

Caught_resetsStore(st, error, timestamp) ==
    Outcome([st EXCEPT !.contexts = [s \in Sessions |-> None]],
            Some(getErrorResponse(error, timestamp)), "error", None, None)

\* handleMessage, lines 458-461: the catch of the whole body
Caught(st, error, timestamp) ==
    Outcome(st, Some(getErrorResponse(error, timestamp)), "error", None, None)

\* handleMessage, line 378
IsLinkRequest(message) ==
    LET lowerMessage == ToLower(message)
    IN  /\ Includes(lowerMessage, <<"l", "i", "n", "k">>)
        /\ ~Includes(lowerMessage, <<"c", "r", "e", "a", "t", "e">>)
        /\ ~Includes(lowerMessage, <<"n", "e", "w">>)

\* handleMessage, line 380: only a link that was found is returned
LinkAnswers(linkResult) == linkResult.success

\* handleMessage at time t; o holds what the collaborators do when asked
handleMessage(store, h, md, sessionId, message, t, o) ==
    LET timestamp == ToISOString(t)
    IN
    With(BeginRequest(store, h, md, sessionId, message, t, o.discovery), LAMBDA st0 :
    With(getHelpResponse(st0, timestamp, t, o.discovery, o.caps), LAMBDA help :
    With(handleLinkRequest(st0, sessionId, timestamp, message, t, o.discovery, o.find), LAMBDA link :
    LET linkResult == Get(link.response)
        st1 == IF IsLinkRequest(message) THEN link.st ELSE st0
        followUp == detectFollowUpIntent(message)
    IN
    With(handleFollowUp(st1, sessionId, followUp.type, followUp.extractedValue,
                        message, timestamp, t, o.discovery, o.drill), LAMBDA follow :
    With(handleCustomObjectsQuery(st1, message, timestamp, t, o.discovery, o.count), LAMBDA custom :
    With(getAIPlan(st1, message, sessionId, t, o), LAMBDA p :
    LET plan == Get(p.value).plan
    IN
    With(executePlan(p.st, plan, message, sessionId, t, o), LAMBDA x :
    LET result == Get(x.response)
    IN  IF IsGreeting(message) THEN Outcome(help.st, help.response, "help", None, None)
        ELSE IF IsLinkRequest(message) /\ LinkAnswers(linkResult)
        THEN Outcome([link.st EXCEPT !.contexts =
                         addToHistory(@, sessionId,
                             AssistantTurn(timestamp, linkResult.reply, <<"l", "i", "n", "k">>, None, TRUE))],
                     link.response, "link", None, None)
        ELSE IF IsFollowUp(st1, sessionId, message) /\ IsSome(follow.response)
        THEN Outcome(follow.st, follow.response, "followUp", None, None)
        ELSE IF IsCustomObjectsQuery(message)
        THEN Outcome(custom.st, custom.response, "custom", None, None)
        ELSE IF IsSome(p.threw) THEN Caught(p.st, Get(p.threw), timestamp)
        ELSE IF IsSome(x.threw) THEN Caught(x.st, Get(x.threw), timestamp)
        ELSE Outcome([x.st EXCEPT !.contexts =
                         addToHistory(@, sessionId,
                             AssistantTurn(ToISOString(t), Substring(result.reply, 200),
                                           plan.action, Some(plan.objectType),
                                           result.success))],
                     Some(Response(result.success, result.reply, result.chartData, None,
                                   timestamp)),
                     "plan", Some(plan), Some(Get(p.value).target)))))))))

----------------------------------------------------------------------------
\* Store operations as actions.

\* The state after construction: an empty store and empty caches.
Init ==
    /\ contexts = [s \in Sessions |-> None]
    /\ now = StartTime
    /\ handler = [discoveredObjects |-> << >>, metadataCache |-> [o \in ObjectTypes |-> None]]
    /\ metadataService = [discoveredObjects |-> None, discoveredObjectsTimestamp |-> 0,
                          customObjectsCache |-> None,
                          metadataCache |-> [o \in ObjectTypes |-> None],
                          objectLabelsCache |-> [o \in ObjectTypes |-> None]]
    /\ client = IdleClient
    /\ toolRegistry = NewToolRegistry
    /\ sessionManager = [sessionMetadata |-> [s \in Sessions |-> None]]
    /\ inflight = [calls |-> << >>, stamps |-> [s \in Sessions |-> << >>]]
    /\ heap = NewHeap
    /\ used = [appends |-> [s \in Sessions |-> 0], ticks |-> 0, turns |-> 0, requests |-> 0,
               storeTurns |-> 0, storeOps |-> 0]
    /\ last = [op |-> "init"]

\* appendTurn of the n-th numbered message of a session, roles alternating.
AppendNumbered(s) ==
    /\ used.appends[s] < MaxAppends
    /\ LET n == used.appends[s] + 1
           turn == Turn(ToISOString(now), IF n % 2 = 1 THEN "user" ELSE "assistant", Numeral(n))
       IN  /\ contexts' = addToHistory(contexts, s, turn)
           /\ last' = [op |-> "addToHistory", session |-> s, turn |-> turn]
    /\ used' = [used EXCEPT !.appends[s] = @ + 1]
    /\ UNCHANGED <<now, handler, metadataService, client, toolRegistry, sessionManager, inflight, heap>>

ClearContext(s) ==
    /\ contexts' = clearContext(contexts, s)
    /\ used' = [used EXCEPT !.appends[s] = 0]
    /\ last' = [op |-> "clearContext", session |-> s]
    /\ UNCHANGED <<now, handler, metadataService, client, toolRegistry, sessionManager, inflight, heap>>

NextHistory == \E s \in Sessions : AppendNumbered(s) \/ ClearContext(s)

SpecHistory == Init /\ [][NextHistory]_vars

\* C1: History bound.  A session's history never holds more than 20 turns, and it
\* is the last min(n, 20) of the n turns appended to the session, oldest first: the
\* turn at position i is the appended turn number n - Len + i.
C1_HistoryBound ==
    \A s \in Sessions :
        IsSome(contexts[s]) =>
            LET history == Get(contexts[s]).history
                n == used.appends[s]
            IN  /\ Len(history) <= 20
                /\ Len(history) = Min(n, 20)
                /\ \A i \in 1..Len(history) :
                       history[i].message = Numeral(n - Len(history) + i)

\* More than 20 turns were appended to a session and old turns were evicted.
C1_Witness ==
    \E s \in Sessions :
        /\ used.appends[s] = 22
        /\ IsSome(contexts[s])
        /\ Len(Get(contexts[s]).history) = 20
        /\ Get(contexts[s]).history[1].message = <<"3">>
        /\ Get(contexts[s]).history[20].message = <<"2", "2">>

----------------------------------------------------------------------------
\* The expiry sweep.

\* A query memory as a caller of updateLastQuery passes it.
SampleQuery(t) ==
    [objectType |-> <<"p">>, objectLabel |-> <<"P">>, action |-> "query",
     filters |-> None, results |-> None, totalCount |-> Some(1), groupByField |-> None,
     groupByDisplayName |-> None, chartData |-> None, timestamp |-> ToISOString(t)]

TickSteps == {MinuteMs, 29 * MinuteMs}

\* Time passes.
Tick(d) ==
    /\ used.ticks < MaxTicks
    /\ now' = now + d
    /\ used' = [used EXCEPT !.ticks = @ + 1]
    /\ last' = [op |-> "tick"]
    /\ UNCHANGED <<contexts, handler, metadataService, client, toolRegistry, sessionManager, inflight, heap>>

AppendTurn(s) ==
    /\ used.turns < MaxTurns
    /\ LET turn == Turn(ToISOString(now), "user", Numeral(used.turns + 1))
       IN  /\ contexts' = addToHistory(contexts, s, turn)
           /\ last' = [op |-> "addToHistory", session |-> s, turn |-> turn]
    /\ used' = [used EXCEPT !.turns = @ + 1]
    /\ UNCHANGED <<now, handler, metadataService, client, toolRegistry, sessionManager, inflight, heap>>

UpdateLastQuery(s) ==
    /\ ~ (IsSome(contexts[s]) /\ IsSome(Get(contexts[s]).lastQuery))
    /\ contexts' = updateLastQuery(contexts, s, SampleQuery(StartTime))
    /\ last' = [op |-> "updateLastQuery", session |-> s]
    /\ UNCHANGED <<now, used, handler, metadataService, client, toolRegistry, sessionManager, inflight, heap>>

\* The periodic sweep.
SweepExpired ==
    /\ contexts' = cleanupExpiredContexts(contexts, now)
    /\ last' = [op |-> "cleanupExpiredContexts", at |-> now, before |-> contexts]
    /\ UNCHANGED <<now, used, handler, metadataService, client, toolRegistry, sessionManager, inflight, heap>>

NextExpiry ==
    \/ \E d \in TickSteps : Tick(d)
    \/ \E s \in Sessions : AppendTurn(s)
    \/ \E s \in Sessions : UpdateLastQuery(s)
    \/ \E s \in Sessions : ClearContext(s)
    \/ SweepExpired

SpecExpiry == Init /\ [][NextExpiry]_vars

\* The age, at time t, of the last history entry of a context with history.
AgeOfLastEntry(context, t) == t - context.history[Len(context.history)].timestamp.iso

\* C2: Expiry sweep.  Right after a sweep, a session whose last history entry was
\* more than 30 minutes older than the sweep time is absent from the store, and a
\* session whose last history entry was 30 minutes old or less is present with the
\* state it had before the sweep.
C2_ExpirySweep ==
    last.op = "cleanupExpiredContexts" =>
        \A s \in Sessions :
            (IsSome(last.before[s]) /\ Len(Get(last.before[s]).history) > 0) =>
                IF AgeOfLastEntry(Get(last.before[s]), last.at) > 30 * 60 * 1000
                THEN contexts[s] = None
                ELSE contexts[s] = last.before[s]

\* A sweep removed a session idle for 31 minutes and kept one touched one minute
\* before the sweep, whose first turn is older than 30 minutes.
C2_Witness ==
    /\ last.op = "cleanupExpiredContexts"
    /\ \E s \in Sessions :
         /\ IsSome(last.before[s])
         /\ Len(Get(last.before[s]).history) > 0
         /\ AgeOfLastEntry(Get(last.before[s]), last.at) = 31 * 60 * 1000
         /\ contexts[s] = None
    /\ \E s \in Sessions :
         /\ IsSome(contexts[s])
         /\ Len(Get(contexts[s]).history) = 2
         /\ AgeOfLastEntry(Get(contexts[s]), last.at) = 60 * 1000
         /\ last.at - Get(contexts[s]).history[1].timestamp.iso > 30 * 60 * 1000

\* A sweep kept a session whose last entry is exactly 30 minutes old.
C2_WitnessBoundary ==
    /\ last.op = "cleanupExpiredContexts"
    /\ \E s \in Sessions :
         /\ IsSome(contexts[s])
         /\ Len(Get(contexts[s]).history) > 0
         /\ AgeOfLastEntry(Get(contexts[s]), last.at) = 30 * 60 * 1000


----------------------------------------------------------------------------
\* handleMessage as an action.  The collaborators are asked only at certain
\* steps of a request; what each one does is chosen where it is asked.

\* Requests handled in one run.
MaxRequests == 2

ListFound == [threw |-> None, response |-> ListResponse(Some(<<Apollo>>), None)]
NoData == [threw |-> None, results |-> None]

\* The choices that have no effect until a collaborator is asked.
NoOracle ==
    [discovery |-> "ok", caps |-> DefaultCapabilities, find |-> "none", drill |-> ListFound,
     count |-> "noTotal", schemaTarget |-> None, schemaPlan |-> None,
     reply |-> AIReply("error", NoPlan), list |-> ListFound, data |-> NoData,
     record |-> "found", mutation |-> "ok"]

\* A profile bounds what a specification draws: the sessions and messages of
\* its requests, and what the collaborators may do.  A request of a final
\* profile is the last one of its run.
Profile(sessions, messages, replies, data, lists, errors, discoveries, final) ==
    [sessions |-> sessions, messages |-> messages, replies |-> replies, data |-> data,
     lists |-> lists, errors |-> errors, discoveries |-> discoveries, final |-> final]

SchemaFetches(calls) ==
    Len(SelectSeq(calls, LAMBDA c : c.by = "getObjectMetadata"))

\* Choices for the steps before the plan: discovery, help, link, follow-up and
\* the custom-objects query.
BeforePlan(profile, s, m) ==
    LET lookup == /\ IsLinkRequest(m) /\ ~IsSome(LinkAllObject(m))
                  /\ ~Includes(ToLower(m), <<"c", "u", "s", "t", "o", "m", " ", "o", "b", "j", "e", "c", "t">>)
                  /\ Truthy(LinkRecordName(m))
                  /\ ~InSeq(GenericWords, Get(LinkRecordName(m)))
        followUp == detectFollowUpIntent(m)
        drill == /\ followUp.type = "showSelected"
                 /\ IsSome(MatchedValue(contexts, s, followUp.extractedValue, m))
    IN  { [NoOracle EXCEPT !.discovery = d, !.caps = c, !.find = f, !.drill = l,
                           !.count = k] :
            d \in IF DiscoveryIsFresh(metadataService, now) THEN {"ok"}
                  ELSE profile.discoveries,
            c \in IF IsGreeting(m) THEN Capabilities ELSE {DefaultCapabilities},
            f \in IF lookup THEN FindOutcomes ELSE {"none"},
            l \in IF drill THEN profile.lists ELSE {ListFound},
            k \in IF IsCustomObjectsQuery(m) THEN CountOutcomes ELSE {"noTotal"} }

\* Choices for the execution of the plan of reply a.
ForPlan(profile, s, m, o, a, fetchedBefore) ==
    LET replied == [o EXCEPT !.reply = a]
    IN
    With(handleMessage(contexts, handler, metadataService, s, m, now, replied), LAMBDA r :
    LET action == IF IsSome(r.plan) THEN Get(r.plan).action ELSE << >>
        fetched == SchemaFetches(r.st.calls) > fetchedBefore
        mutates == action \in {<<"c", "r", "e", "a", "t", "e">>, <<"u", "p", "d", "a", "t", "e">>, <<"d", "e", "l", "e", "t", "e">>}
        succeeded == IsSome(r.response) /\ Get(r.response).success
    IN  IF a.kind # "plan" THEN {replied}
        ELSE { [replied EXCEPT !.schemaPlan = sp, !.data = d, !.list = l, !.record = rc,
                               !.mutation = mu, !.caps = c] :
                 sp \in IF fetched THEN {None} \cup {Some(e) : e \in profile.errors}
                        ELSE {None},
                 d \in IF action = <<"a", "n", "a", "l", "y", "z", "e">> /\ succeeded THEN profile.data ELSE {NoData},
                 l \in IF action = <<"q", "u", "e", "r", "y">> /\ succeeded THEN profile.lists ELSE {ListFound},
                 rc \in IF mutates THEN RecordOutcomes ELSE {"found"},
                 mu \in IF mutates /\ succeeded THEN MutationOutcomes ELSE {"ok"},
                 c \in IF action = <<"h", "e", "l", "p">> THEN Capabilities ELSE {DefaultCapabilities} })

\* Choices for the plan: the schema of the target object and the reply.
Oracles(profile, s, m) ==
    UNION { With(handleMessage(contexts, handler, metadataService, s, m, now, o), LAMBDA r :
                IF r.st.ai = 0 THEN {o}
                ELSE (IF SchemaFetches(r.st.calls) > 0
                      THEN {[o EXCEPT !.schemaTarget = Some(e)] : e \in profile.errors}
                      ELSE {})
                     \cup UNION {ForPlan(profile, s, m, o, a, SchemaFetches(r.st.calls)) :
                                   a \in profile.replies})
          : o \in BeforePlan(profile, s, m) }

\* handleMessage(m, s) from its first statement to its return.
Handled(profile, s, m) ==
    \E o \in Oracles(profile, s, m) :
    \E r \in {handleMessage(contexts, handler, metadataService, s, m, now, o)} :
        /\ contexts' = r.st.contexts
        /\ handler' = r.st.handler
        /\ metadataService' = r.st.md
        /\ last' = [op |-> "handleMessage", session |-> s, message |-> m,
                    before |-> contexts, o |-> o, response |-> r.response,
                    calls |-> r.st.calls, ai |-> r.st.ai, path |-> r.path,
                    plan |-> r.plan, target |-> r.target]

\* One request.
Request(profile) ==
    /\ used.requests < MaxRequests
    /\ \E s \in profile.sessions, m \in profile.messages : Handled(profile, s, m)
    /\ used' = [used EXCEPT !.requests = IF profile.final THEN MaxRequests ELSE @ + 1]
    /\ UNCHANGED <<now, client, toolRegistry, sessionManager, inflight, heap>>

----------------------------------------------------------------------------
\* Charts and drill-downs.

AnalyzeStatus == PlanReply(<<"a", "n", "a", "l", "y", "z", "e">>, projects, Some(<<"/", "p", "r", "o", "j", "e", "c", "t", "s">>), None, None)
AnalyzeStage == PlanReply(<<"a", "n", "a", "l", "y", "z", "e">>, projects, Some(<<"/", "p", "r", "o", "j", "e", "c", "t", "s">>), Some(<<"S", "t", "a", "g", "e">>), None)
AnalyzeUnknown ==
    PlanReply(<<"a", "n", "a", "l", "y", "z", "e">>, custWidget, Some(<<"/", "c", "u", "s", "t", "W", "i", "d", "g", "e", "t">>), Some(<<"n", "o", "n", "e", "x", "i", "s", "t", "e", "n", "t", "_", "f", "i", "e", "l", "d">>),
              None)

Data(values) == [threw |-> None, results |-> Some(values)]
Active == RawString(<<"A", "c", "t", "i", "v", "e">>)

ChartProfile ==
    Profile(Sessions, {M_analyze, M_drill, M_drillNone, M_drillRaw, M_linkDrill},
            {AnalyzeStatus, AnalyzeStage, AnalyzeUnknown},
            {NoData, Data(<<Completed, Active, Completed>>), Data(<<RawNull, Completed, RawNull>>)},
            ListOutcomes, {ServerError}, {"ok"}, FALSE)

ChartRequest == Request(ChartProfile)
NextChart == ChartRequest
SpecChart == Init /\ [][NextChart]_vars

\* The last query of a session in a store, None when it has none.
LastQueryOf(store, s) == IF IsSome(store[s]) THEN Get(store[s]).lastQuery ELSE None

\* The last operation was a request.
Requested == last.op = "handleMessage"

\* Before the request its session held a chart: the last query was an analysis.
HadChart ==
    LET q == LastQueryOf(last.before, last.session)
    IN  /\ IsSome(q) /\ Get(q).action = "analyze"
        /\ IsSome(Get(q).chartData) /\ Truthy(Get(q).groupByField)

\* The buckets of that chart, and its labels.
ChartBefore ==
    LET q == Get(LastQueryOf(last.before, last.session))
    IN  Get(Lookup(Get(q.chartData), Get(q.groupByField)))
LabelsBefore == Labels(ChartBefore)

\* The request was handed to the drill-down: a "show ... ones" follow-up that
\* no link answered first.
DrillDownHandled ==
    /\ Requested /\ HadChart
    /\ detectFollowUpIntent(last.message).type = "showSelected"
    /\ last.path # "link"

\* The remote calls the drill-down made.
DrillDownCalls == SelectSeq(last.calls, LAMBDA c : c.by = "handleDrillDown")

\* The label L is named in the message of the request.
Named(L) == Includes(ToLower(last.message), ToLower(L))

NoLabelFor(v) ==
    \A i \in 1..Len(LabelsBefore) :
        LET label == ToLower(LabelsBefore[i])
        IN  /\ ~Truthy(v) \/ (/\ label # ToLower(Get(v))
                              /\ ~Includes(label, ToLower(Get(v)))
                              /\ ~Includes(ToLower(Get(v)), label))
            /\ ~Named(LabelsBefore[i])

\* C5: when a drill-down follow-up is handled for a session whose last chart has
\* the labels S, and neither the extracted value matches a label (exactly or as a
\* substring) nor the message contains one, the response has success = false and
\* lists exactly the labels of S, the drill-down makes no remote call, and the
\* session's lastQuery is unchanged.
C5_NoMatchListsLabels ==
    (DrillDownHandled /\ NoLabelFor(detectFollowUpIntent(last.message).extractedValue)) =>
        /\ IsSome(last.response)
        /\ ~Get(last.response).success
        /\ Get(last.response).reply =
               <<"U+2753", " ", "I", " ", "c", "o", "u", "l", "d", "n", "'",
                 "t", " ", "d", "e", "t", "e", "r", "m", "i", "n", "e", " ",
                 "w", "h", "i", "c", "h", " ", "v", "a", "l", "u", "e", " ",
                 "y", "o", "u", " ", "w", "a", "n", "t", " ", "t", "o", " ",
                 "s", "e", "e", ".", "\n", "\n">>
               \o <<"*", "*", "A", "v", "a", "i", "l", "a", "b", "l", "e", " ",
                    "o", "p", "t", "i", "o", "n", "s", " ", "f", "r", "o", "m",
                    " ", "t", "h", "e", " ", "l", "a", "s", "t", " ", "c", "h",
                    "a", "r", "t", ":", "*", "*", "\n">>
               \o Join([i \in 1..Len(LabelsBefore) |-> <<"U+2022", " ", "\"">> \o LabelsBefore[i] \o <<"\"">>],
                       <<"\n">>)
               \o <<"\n", "\n", "P", "l", "e", "a", "s", "e", " ", "s", "p", "e",
                    "c", "i", "f", "y", " ", "o", "n", "e", " ", "o", "f", " ",
                    "t", "h", "e", "s", "e", " ", "v", "a", "l", "u", "e", "s",
                    ".">>
        /\ DrillDownCalls = << >>
        /\ ~IsLinkRequest(last.message) => last.calls = << >>
        /\ LastQueryOf(contexts, last.session) = LastQueryOf(last.before, last.session)

\* "show me the pending ones" after a chart of Completed and Active.
C5_Witness ==
    /\ DrillDownHandled
    /\ last.message = M_drillNone
    /\ LabelsBefore = << <<"C", "o", "m", "p", "l", "e", "t", "e", "d">>, <<"A", "c", "t", "i", "v", "e">> >>
    /\ ~Get(last.response).success
    /\ last.calls = << >>

\* The request drilled down and the remote query succeeded.
DrilledDown == DrillDownHandled /\ last.path = "followUp" /\ Get(last.response).success

\* C9: after a successful drill-down on the grouped field F with the matched
\* label L, lastQuery.action is "drilldown", lastQuery.filters is exactly {F: L},
\* objectType is unchanged, and the response carries a deepLink.
C9_DrillDownMemory ==
    DrilledDown =>
        LET before == Get(LastQueryOf(last.before, last.session))
            after == LastQueryOf(contexts, last.session)
        IN  /\ IsSome(after)
            /\ Get(after).action = "drilldown"
            /\ \E i \in 1..Len(LabelsBefore) :
                  /\ Named(LabelsBefore[i])
                  /\ Get(after).filters =
                         Some(<<[key |-> Get(before.groupByField),
                                 value |-> LabelsBefore[i]]>>)
            /\ Get(after).objectType = before.objectType
            /\ Truthy(Get(last.response).deepLink)

\* The chart by stage was drilled into Completed by the words of the message.
C9_Witness ==
    /\ DrilledDown
    /\ last.message = M_drillRaw
    /\ Get(LastQueryOf(contexts, last.session)).filters =
           Some(<<[key |-> <<"c", "_", "s", "t", "a", "g", "e">>, value |-> <<"C", "o", "m", "p", "l", "e", "t", "e", "d">>]>>)
    /\ Get(LastQueryOf(contexts, last.session)).totalCount = Some(20)

\* The request executed a plan to analyze, and the schema of its object was there.
Analyzed == Requested /\ last.path = "plan" /\ Get(last.plan).action = <<"a", "n", "a", "l", "y", "z", "e">>

\* The schema of the object of the executed plan, and the field it groups by.
PlanSchema == BuildMetadata(Get(last.plan).objectType, DescribeResponse(Get(last.plan).objectType))
PlanField ==
    IF IsSome(Get(last.plan).groupByField) THEN Get(Get(last.plan).groupByField)
    ELSE <<"s", "t", "a", "t", "u", "s">>

\* No attribute of the schema has the field as its apiName or displayName.
FieldUnknown ==
    \A i \in 1..Len(PlanSchema.attributes) :
        /\ ToLower(PlanSchema.attributes[i].apiName) # ToLower(PlanField)
        /\ ToLower(PlanSchema.attributes[i].displayName) # ToLower(PlanField)

\* C8: a plan to analyze whose groupByField matches no attribute of the schema
\* of its object (by apiName or displayName, whatever the case) yields a failure
\* response that lists the groupable fields of the object, at most the first 15
\* in the order of getGroupableFields; no record is fetched and lastQuery is
\* unchanged.
C8_UnknownField ==
    (Analyzed /\ FieldUnknown) =>
        LET fields == getGroupableFields(PlanSchema)
            listed == SubSeq(fields, 1, IF Len(fields) < 15 THEN Len(fields) ELSE 15)
        IN  /\ ~Get(last.response).success
            /\ Get(last.response).chartData = None
            /\ Get(last.response).reply =
                   <<"U+274C", " ", "F", "i", "e", "l", "d", " ", "\"">> \o PlanField \o <<"\"", " ", "n", "o", "t", " ", "f", "o", "u", "n", "d", " ", "i", "n", " ">> \o PlanSchema.label
                   \o <<".", "\n", "\n", "*", "*", "A", "v", "a", "i", "l", "a", "b",
                        "l", "e", " ", "f", "i", "e", "l", "d", "s", ":", "*", "*",
                        "\n", "U+2022", " ">>
                   \o Join([i \in 1..Len(listed) |->
                               <<"U+0060">> \o listed[i].apiName \o <<"U+0060", " ", "(">>
                               \o listed[i].displayName \o <<")">>],
                           <<"\n", "U+2022", " ">>)
            /\ \A i \in 1..Len(last.calls) : last.calls[i].by # "executeAnalyze"
            /\ LastQueryOf(contexts, last.session) = LastQueryOf(last.before, last.session)

\* The object has 16 groupable fields, 15 were listed, and the session kept the
\* chart it had.
C8_Witness ==
    /\ Analyzed /\ FieldUnknown
    /\ Get(last.plan).objectType = custWidget
    /\ Len(getGroupableFields(PlanSchema)) > 15
    /\ HadChart
    /\ LastQueryOf(contexts, last.session) = LastQueryOf(last.before, last.session)

----------------------------------------------------------------------------
\* Distributions: every list of at most MaxRecords values of the grouped field.

AnalyzeProfile ==
    Profile(Sessions, {M_analyze}, {AnalyzeStatus}, AnalyzeOutcomes, {ListFound}, {}, {"ok"},
            FALSE)

AnalyzeRequest == Request(AnalyzeProfile)
NextAnalyze == AnalyzeRequest
SpecAnalyze == Init /\ [][NextAnalyze]_vars

RECURSIVE SumOfValues(_)
SumOfValues(buckets) ==
    IF Len(buckets) = 0 THEN 0 ELSE buckets[1].value + SumOfValues(Tail(buckets))

\* The records the remote system returned for the analysis of the request.
Fetched == IF IsSome(last.o.data.results) THEN Get(last.o.data.results) ELSE << >>

\* C4: for every successful analysis, the values of the buckets of the stored and
\* returned distribution add up to the number of records fetched, which is also
\* the totalCount written to lastQuery; the records whose grouping value is
\* missing are counted in the bucket "(No value)"; and the buckets are in the
\* order of non-increasing count.
C4_Distribution ==
    (Analyzed /\ Get(last.response).success) =>
        LET q == Get(LastQueryOf(contexts, last.session))
            stored == Get(Lookup(Get(q.chartData), Get(q.groupByField)))
            returned == Get(Lookup(Get(Get(last.response).chartData).chartData,
                                   Get(Get(last.response).chartData).groupByField))
            missing == Cardinality({i \in 1..Len(Fetched) : Fetched[i].kind = "null"})
        IN  /\ returned = stored
            /\ SumOfValues(stored) = Len(Fetched)
            /\ q.totalCount = Some(Len(Fetched))
            /\ missing > 0 =>
                   \E i \in 1..Len(stored) :
                       stored[i] = [label |-> <<"(", "N", "o", " ", "v", "a", "l", "u", "e", ")">>, value |-> missing]
            /\ missing = 0 => \A i \in 1..Len(stored) : stored[i].label # <<"(", "N", "o", " ", "v", "a", "l", "u", "e", ")">>
            /\ \A i \in 1..(Len(stored) - 1) : stored[i].value >= stored[i + 1].value

\* Three records, the first with no value and two Completed: the bucket of the
\* two comes first.
C4_Witness ==
    /\ Analyzed /\ Get(last.response).success
    /\ Fetched = <<RawNull, Completed, Completed>>
    /\ Get(Get(last.response).chartData).chartData =
           <<[key |-> <<"s", "t", "a", "t", "u", "s">>,
              value |-> <<[label |-> <<"C", "o", "m", "p", "l", "e", "t", "e", "d">>, value |-> 2],
                          [label |-> <<"(", "N", "o", " ", "v", "a", "l", "u", "e", ")">>, value |-> 1]>>]>>

----------------------------------------------------------------------------
\* Field hints: messages that mention one, two or no attribute of the target
\* object, and replies with and without a grouping of their own.

AnalyzePriority ==
    PlanReply(<<"a", "n", "a", "l", "y", "z", "e">>, projects, Some(<<"/", "p", "r", "o", "j", "e", "c", "t", "s">>), Some(<<"p", "r", "i", "o", "r", "i", "t", "y">>), None)
AnalyzeWidgets == PlanReply(<<"a", "n", "a", "l", "y", "z", "e">>, custWidget, Some(<<"/", "c", "u", "s", "t", "W", "i", "d", "g", "e", "t">>), Some(<<"o", "w", "n", "e", "r">>), None)
QueryPriority ==
    PlanReply(<<"q", "u", "e", "r", "y">>, projects, Some(<<"/", "p", "r", "o", "j", "e", "c", "t", "s", "?", "l", "i", "m", "i", "t", "=", "5">>), Some(<<"p", "r", "i", "o", "r", "i", "t", "y">>), None)
DescribeStage == PlanReply(<<"d", "e", "s", "c", "r", "i", "b", "e">>, projects, None, Some(<<"S", "t", "a", "g", "e">>), None)

HintProfile ==
    Profile(Sessions, {M_analyze, M_two, M_widgets, M_create},
            {AnalyzeStatus, AnalyzePriority, AnalyzeUnknown, AnalyzeWidgets, QueryPriority,
             DescribeStage},
            {NoData, Data(<<Completed, Active>>)}, {ListFound}, {}, {"ok"}, FALSE)

HintRequest == Request(HintProfile)
NextHint == HintRequest
SpecHint == Init /\ [][NextHint]_vars

\* The request got a plan from the reasoning service and executed it.
Planned == Requested /\ last.path = "plan"

\* The attributes of the schema of the target object of the request.
TargetAttributes == Get(handler.metadataCache[Get(last.target)]).attributes

\* The message of the request contains the display name or the apiName of the
\* i-th attribute of the target object, in any case of the letters.
Mentions(i) ==
    \/ Includes(ToLower(last.message), ToLower(TargetAttributes[i].displayName))
    \/ Includes(ToLower(last.message), ToLower(TargetAttributes[i].apiName))

\* C6: when the reply of the reasoning service is a plan with the action
\* "analyze" and any groupByField Y, the executed plan has the groupByField X,
\* the apiName of the first attribute, in the order of the schema of the target
\* object, whose display name or apiName the message contains, and it is the
\* reply otherwise unchanged; when the message contains none, and for every
\* action other than "analyze", the executed plan is the reply as returned.
C6_FieldHintFirst ==
    Planned =>
        LET reply == last.o.reply.plan
            executed == Get(last.plan)
        IN  IF reply.action = <<"a", "n", "a", "l", "y", "z", "e">> /\ \E i \in 1..Len(TargetAttributes) : Mentions(i)
            THEN \A i \in 1..Len(TargetAttributes) :
                     (Mentions(i) /\ \A j \in 1..(i - 1) : ~Mentions(j)) =>
                         executed = [reply EXCEPT !.groupByField =
                                                      Some(TargetAttributes[i].apiName)]
            ELSE executed = reply

\* C6 as stated: the executed plan of an "analyze" reply has the groupByField X
\* for every attribute with the apiName X whose display name or apiName the
\* message contains.
C6_FieldHintAny ==
    (Planned /\ last.o.reply.plan.action = <<"a", "n", "a", "l", "y", "z", "e">>) =>
        \A i \in 1..Len(TargetAttributes) :
            Mentions(i) => Get(last.plan).groupByField = Some(TargetAttributes[i].apiName)

\* "analyze projects by stage and status" with a reply that groups by priority:
\* status comes before c_stage in the schema, and the plan groups by status.
C6_Witness ==
    /\ Planned
    /\ last.message = M_two
    /\ last.o.reply = AnalyzePriority
    /\ Get(last.plan).groupByField = Some(<<"s", "t", "a", "t", "u", "s">>)
    /\ \E i, j \in 1..Len(TargetAttributes) :
          /\ i < j /\ Mentions(i) /\ Mentions(j)
          /\ TargetAttributes[j].apiName = <<"c", "_", "s", "t", "a", "g", "e">>

----------------------------------------------------------------------------
\* Link requests, with and without a query before them.

HelpReply == PlanReply(<<"h", "e", "l", "p">>, projects, None, None, None)

LinkProfile ==
    Profile(Sessions, {M_link, M_linkAll, M_linkDrill, M_analyze},
            {AIReply("error", NoPlan), HelpReply, AnalyzeStatus, QueryPriority},
            {NoData, Data(<<Completed, Active>>)}, {ListFound}, {ServerError},
            DiscoveryOutcomes, FALSE)

LinkRequest == Request(LinkProfile)
NextLink == LinkRequest
SpecLink == Init /\ [][NextLink]_vars

\* The request was "give me a link" in a session with no query before it.
LinkWithoutQuery ==
    /\ Requested
    /\ last.message = M_link
    /\ LastQueryOf(last.before, last.session) = None

\* C7: when handleMessage receives "give me a link" for a session that has no
\* prior query, the response is a failure reply that contains the usage examples,
\* and neither a remote call nor a call of the reasoning service is made for the
\* message.
C7_LinkFallback ==
    LinkWithoutQuery =>
        /\ IsSome(last.response)
        /\ ~Get(last.response).success
        /\ Includes(Get(last.response).reply, <<"G", "i", "v", "e", " ", "m", "e", " ", "l", "i", "n", "k",
                                        " ", "t", "o", " ", "a", "l", "l", " ", "p", "r", "o", "j",
                                        "e", "c", "t", "s">>)
        /\ last.calls = << >>
        /\ last.ai = 0

\* "give me a link" with no query before it went on to the reasoning service,
\* and the answer is the help text of the plan it returned.
C7_Witness ==
    /\ LinkWithoutQuery
    /\ last.path = "plan"
    /\ last.ai = 1
    /\ Get(last.response).success
    /\ last.o.reply = HelpReply

----------------------------------------------------------------------------
\* Every message and every outcome of the collaborators: a run is zero or more
\* analyses, which leave a chart behind, and last one request of any kind.

QueryNoEndpoint == PlanReply(<<"q", "u", "e", "r", "y">>, projects, None, None, None)
CreateReply == PlanReply(<<"c", "r", "e", "a", "t", "e">>, projects, Some(<<"/", "p", "r", "o", "j", "e", "c", "t", "s">>), None, Some(<<"A", "p", "o", "l", "l", "o">>))
UpdateReply == PlanReply(<<"u", "p", "d", "a", "t", "e">>, projects, Some(<<"/", "p", "r", "o", "j", "e", "c", "t", "s">>), None, None)
DeleteReply == PlanReply(<<"d", "e", "l", "e", "t", "e">>, projects, Some(<<"/", "p", "r", "o", "j", "e", "c", "t", "s">>), None, None)
UnknownReply == PlanReply(<<"f", "r", "o", "b", "n", "i", "c", "a", "t", "e">>, projects, None, None, None)

SetupProfile ==
    Profile(Sessions, {M_analyze}, {AnalyzeStatus}, {Data(<<Completed, Active>>)},
            {ListFound}, {}, {"ok"}, FALSE)

AnyProfile ==
    Profile(Sessions, Messages,
            AIFailures \cup {AnalyzeStatus, AnalyzeUnknown, QueryPriority, QueryNoEndpoint,
                             DescribeStage, HelpReply, CreateReply, UpdateReply,
                             DeleteReply, UnknownReply},
            {[threw |-> Some(ServerError), results |-> None], NoData,
             Data(<<RawNull, Completed>>)},
            ListOutcomes, RemoteErrors, DiscoveryOutcomes, TRUE)

SetupRequest == Request(SetupProfile)
AnyRequest == Request(AnyProfile)
NextTotal == SetupRequest \/ AnyRequest
SpecTotal == Init /\ [][NextTotal]_vars

\* C10: for every message, session and outcome of the collaborators (an error
\* of the remote system, an error of the reasoning service, a reply with no
\* plan in it, an error fetching a schema) handleMessage returns a response and
\* throws nothing; a response with success = false has no chartData and a reply
\* that is not empty.
C10_Total ==
    Requested =>
        /\ IsSome(last.response)
        /\ ~Get(last.response).success =>
               /\ Get(last.response).chartData = None
               /\ Get(last.response).reply # << >>

\* The reasoning service replied with text that holds no plan, after the schema
\* of the target had been fetched, and the request ended in the catch of
\* handleMessage with a failure.
C10_Witness ==
    /\ Requested
    /\ last.path = "error"
    /\ last.o.reply.kind = "noJson"
    /\ last.ai = 1
    /\ ~Get(last.response).success
    /\ Includes(Get(last.response).reply, <<"C", "o", "u", "l", "d", " ", "n", "o", "t", " ", "p", "a",
                                        "r", "s", "e", " ", "A", "I", " ", "r", "e", "s", "p", "o",
                                        "n", "s", "e", " ", "a", "s", " ", "J", "S", "O", "N">>)
----------------------------------------------------------------------------
\* The retry loop of the remote-API client.

MethodsOfClient == {"GET", "POST", "PATCH", "DELETE"}

\* A caller issues a request to a client configured with maxRetries.
ClientRequest(maxRetries, method) ==
    /\ client.pc \in {"idle", "returned", "thrown"}
    /\ client' = StartRequest(maxRetries, method)
    /\ last' = [op |-> "request", maxRetries |-> maxRetries]
    /\ UNCHANGED <<contexts, now, handler, metadataService, toolRegistry, sessionManager, inflight, heap, used>>

\* The fetch of the current attempt settles.
ClientFetch(outcome) ==
    /\ client.pc = "fetch"
    /\ client' = AfterFetch(client, outcome)
    /\ last' = [op |-> "fetch", outcome |-> outcome]
    /\ UNCHANGED <<contexts, now, handler, metadataService, toolRegistry, sessionManager, inflight, heap, used>>

\* The backoff timer fires; the delay it ran for is the last of client.waits.
ClientBackoff ==
    /\ client.pc = "wait"
    /\ client' = AfterBackoff(client)
    /\ last' = [op |-> "backoff", delay |-> client.waits[Len(client.waits)]]
    /\ UNCHANGED <<contexts, now, handler, metadataService, toolRegistry, sessionManager, inflight, heap, used>>

NextRetry ==
    \/ \E maxRetries \in 0..MaxRetryCount, method \in MethodsOfClient :
           ClientRequest(maxRetries, method)
    \/ \E outcome \in FetchOutcomes : ClientFetch(outcome)
    \/ ClientBackoff

SpecRetry == Init /\ [][NextRetry]_vars

\* The attempt failed with HTTP 401 or 403: the response was not ok and its status
\* and body were read.
AuthFailure(outcome) == outcome.kind = "http" /\ outcome.status \in {401, 403}

\* C11: Auth fail-fast.  An attempt that fails with HTTP 401 or 403 is the last one
\* of its request, for every retry count and on whichever attempt it happens: the
\* request has thrown that error, no attempt follows it, and no backoff wait was
\* started after it (the only waits are those after the earlier, other failures).
\* In particular an auth failure on the first attempt makes one attempt and no wait.
C11_AuthFailFast ==
    \A k \in 1..Len(client.outcomes) :
        AuthFailure(client.outcomes[k]) =>
            /\ client.pc = "thrown"
            /\ client.thrown = Some(ErrorMessage(client.outcomes[k]))
            /\ Len(client.outcomes) = k
            /\ Len(client.waits) = k - 1
            /\ \A i \in 1..(k - 1) : ~AuthFailure(client.outcomes[i])

\* A client with three retries gets a 500 and, after the first backoff, a 403.
C11_Witness ==
    /\ client.maxRetries = 3
    /\ client.pc = "thrown"
    /\ Len(client.outcomes) = 2
    /\ client.outcomes[1] = HttpFailure(500, << >>)
    /\ client.outcomes[2] = HttpFailure(403, <<"F", "o", "r", "b", "i", "d", "d", "e", "n">>)
    /\ client.waits = <<1000>>

----------------------------------------------------------------------------
\* Failing requests, and the shape of the query memory.

DataFailure == [threw |-> Some(ServerError), results |-> None]

\* Analyses, queries and drill-downs whose remote call may fail, and plan
\* generation that may fail.
FrameProfile ==
    Profile(Sessions, {M_analyze, M_drill},
            {AnalyzeStatus, AnalyzeStage, QueryPriority, AIReply("error", NoPlan),
             AIReply("noJson", NoPlan)},
            {DataFailure, Data(<<Completed, Active>>)},
            {[threw |-> Some(ServerError), response |-> ListResponse(None, None)], ListFound},
            {ServerError}, {"ok"}, FALSE)

FrameRequest == Request(FrameProfile)
NextFrame == FrameRequest
SpecFrame == Init /\ [][NextFrame]_vars

CallsBy(who) == SelectSeq(last.calls, LAMBDA c : c.by = who)

\* The request issued the data fetch of a query, an analysis or a drill-down, and
\* the remote system failed it.
FetchFailed ==
    /\ Requested
    /\ \/ Len(CallsBy("executeQuery")) > 0 /\ IsSome(last.o.list.threw)
       \/ Len(CallsBy("executeAnalyze")) > 0 /\ IsSome(last.o.data.threw)
       \/ Len(CallsBy("handleDrillDown")) > 0 /\ IsSome(last.o.drill.threw)

\* The request reached plan generation and getAIPlan threw: the schema of the
\* target could not be fetched, or the reasoning service failed or sent no plan.
PlanFailed ==
    /\ Requested
    /\ ~IsSome(last.plan)
    /\ \/ last.ai = 1 /\ last.o.reply.kind # "plan"
       \/ last.ai = 0 /\ last.path = "error" /\ IsSome(last.o.schemaTarget)

\* C12: State is only updated after success.  When the data fetch of a query, an
\* analysis or a drill-down fails, or plan generation fails, the lastQuery of the
\* request's session is after the request what it was before it.
C12_UpdatedAfterSuccess ==
    (FetchFailed \/ PlanFailed) =>
        LastQueryOf(contexts, last.session) = LastQueryOf(last.before, last.session)

\* A session that holds a chart asks for a query whose fetch fails, and still holds
\* the chart.
C12_Witness ==
    /\ FetchFailed /\ HadChart
    /\ Len(CallsBy("executeQuery")) > 0
    /\ ~Get(last.response).success
    /\ LastQueryOf(contexts, last.session) = LastQueryOf(last.before, last.session)
    /\ Get(LastQueryOf(contexts, last.session)).action = "analyze"

\* C13: in every state, a lastQuery has groupByField and chartData both set or both
\* absent, and a chartData that is set has an entry under the key groupByField.
C13_ChartWithField ==
    \A s \in Sessions :
        LET q == LastQueryOf(contexts, s)
        IN  IsSome(q) =>
                /\ IsSome(Get(q).groupByField) <=> IsSome(Get(q).chartData)
                /\ IsSome(Get(q).chartData) =>
                       IsSome(Lookup(Get(Get(q).chartData), Get(Get(q).groupByField)))

\* A drill-down replaces the chart of an analysis by c_stage, which had both fields
\* and the entry, by a memory that has neither field.
C13_Witness ==
    /\ DrillDownHandled
    /\ Get(LastQueryOf(last.before, last.session)).groupByField
           = Some(<<"c", "_", "s", "t", "a", "g", "e">>)
    /\ IsSome(Lookup(Get(Get(LastQueryOf(last.before, last.session)).chartData),
                     <<"c", "_", "s", "t", "a", "g", "e">>))
    /\ Get(LastQueryOf(contexts, last.session)).action = "drilldown"
    /\ ~IsSome(Get(LastQueryOf(contexts, last.session)).groupByField)
    /\ ~IsSome(Get(LastQueryOf(contexts, last.session)).chartData)

----------------------------------------------------------------------------
\* Requests that interleave.  handleMessage is suspended at every await; the one
\* that matters to the query memory is the data fetch of a query, an analysis or a
\* drill-down: what the call read before it (the plan, the chart, the matched value)
\* is fixed, and the memory is written when the fetch has resolved, with the clock
\* of that moment.

\* handleMessage calls started in one run.
MaxCalls == 2

InterleaveProfile ==
    Profile(Sessions, {M_analyze, M_drill}, {AnalyzeStatus, QueryPriority},
            {Data(<<Completed, Active>>)}, {ListFound}, {}, {"ok"}, FALSE)

WriteTime_atStart(startedAt, t) == startedAt

\* timestamp: new Date().toISOString() in the object passed to updateLastQuery: the
\* clock when the memory is written, not the timestamp handleMessage took when the
\* call started.
WriteTime(startedAt, t) == t

\* The call wrote the query memory: a query or an analysis that succeeded, or a
\* drill-down that fetched its records.
Wrote(r) ==
    /\ IsSome(r.response) /\ Get(r.response).success
    /\ \/ r.path = "plan" /\ Get(r.plan).action \in {<<"q", "u", "e", "r", "y">>,
                                                    <<"a", "n", "a", "l", "y", "z", "e">>}
       \/ r.path = "followUp"
          /\ Len(SelectSeq(r.st.calls, LAMBDA c : c.by = "handleDrillDown")) > 0

\* handleMessage(m, s) up to the data fetch: the user turn is in the history, the
\* objects are discovered and the schema is cached; the call keeps what it read.
StartCallOf(profile, s, m) ==
    /\ Len(inflight.calls) < MaxCalls
    /\ \E o \in Oracles(profile, s, m) :
       \E r \in {handleMessage(contexts, handler, metadataService, s, m, now, o)} :
          /\ contexts' = addToHistory(contexts, s, Turn(ToISOString(now), "user", m))
          /\ handler' = r.st.handler
          /\ metadataService' = r.st.md
          /\ inflight' = [inflight EXCEPT !.calls = Append(@,
                 [pc |-> "fetch", session |-> s, message |-> m, o |-> o,
                  contexts |-> contexts, handler |-> handler, md |-> metadataService,
                  startedAt |-> now, endedAt |-> 0, wrote |-> FALSE])]
          /\ last' = [op |-> "startCall", session |-> s, message |-> m]
    /\ UNCHANGED <<now, client, toolRegistry, sessionManager, heap, used>>

StartCall(s, m) == StartCallOf(InterleaveProfile, s, m)

\* The data fetch of call i resolves and the call runs to its return: the memory
\* it writes comes from what it read when it started and from the clock of now.
CompleteCall(i) ==
    /\ i \in 1..Len(inflight.calls)
    /\ inflight.calls[i].pc = "fetch"
    /\ \E c \in {inflight.calls[i]} :
       \E r \in {handleMessage(c.contexts, c.handler, c.md, c.session, c.message,
                                WriteTime(c.startedAt, now), c.o)} :
       \E history \in {getContext(r.st.contexts, c.session).history} :
       \E written \in {IF Wrote(r)
                        THEN updateLastQuery(contexts, c.session,
                                 Get(LastQueryOf(r.st.contexts, c.session)))
                        ELSE contexts} :
          /\ contexts' = IF history[Len(history)].role = "assistant"
                         THEN addToHistory(written, c.session, history[Len(history)])
                         ELSE written
          /\ inflight' = [inflight EXCEPT
                 !.calls[i] = [c EXCEPT !.pc = "done", !.endedAt = now, !.wrote = Wrote(r)],
                 !.stamps[c.session] =
                     IF Wrote(r)
                     THEN Append(@, GetTime(Get(LastQueryOf(r.st.contexts, c.session)).timestamp))
                     ELSE @]
          /\ last' = [op |-> "completeCall", session |-> c.session, message |-> c.message,
                      index |-> i, before |-> contexts]
    /\ UNCHANGED <<now, handler, metadataService, client, toolRegistry, sessionManager, heap, used>>

NextInterleave ==
    \/ \E s \in Sessions, m \in InterleaveProfile.messages : StartCall(s, m)
    \/ \E i \in 1..MaxCalls : CompleteCall(i)
    \/ Tick(MinuteMs)

SpecInterleave == Init /\ [][NextInterleave]_vars

\* C14: for every session the timestamps of the successive updates of lastQuery
\* never decrease, however the calls of the session interleave at their data
\* fetch, and the stored lastQuery carries the timestamp of the latest update.
C14_TimestampMonotone ==
    \A s \in Sessions :
        LET stamps == inflight.stamps[s]
        IN  /\ \A i, j \in 1..Len(stamps) : i < j => stamps[i] <= stamps[j]
            /\ IsSome(LastQueryOf(contexts, s)) =>
                   /\ Len(stamps) > 0
                   /\ GetTime(Get(LastQueryOf(contexts, s)).timestamp) = stamps[Len(stamps)]

\* Two calls of one session overlap: the one that started first writes last, a
\* minute after the other, and the memory holds its timestamp.
C14_Witness ==
    \E i, j \in 1..Len(inflight.calls) :
        LET a == inflight.calls[i]
            b == inflight.calls[j]
        IN  /\ a.session = b.session
            /\ a.pc = "done" /\ b.pc = "done" /\ a.wrote /\ b.wrote
            /\ a.startedAt < b.startedAt
            /\ b.startedAt < b.endedAt
            /\ b.endedAt < a.endedAt
            /\ Len(inflight.stamps[a.session]) = 2
            /\ inflight.stamps[a.session] = <<b.endedAt, a.endedAt>>
            /\ GetTime(Get(LastQueryOf(contexts, a.session)).timestamp) = a.endedAt

----------------------------------------------------------------------------
\* Sessions do not see each other.  The mutations of the store run on the values
\* and, in step, on the objects with identity; handleMessage runs on the values.

\* Turns appended by store mutations in one run, and other store mutations.
MaxStoreTurns == 3
MaxStoreOps == 3

StoreMutations ==
    {"addToHistory", "updateLastQuery", "setCurrentPage", "updatePreferences", "clearContext"}

SamplePage == [objectType |-> <<"p">>, recordId |-> Some(<<"7">>), recordName |-> None,
               url |-> None]
SamplePreferences ==
    { [preferredChartType |-> Some("pie"), language |-> None, detailLevel |-> None],
      [preferredChartType |-> None, language |-> Some("he"), detailLevel |-> Some("brief")] }

\* One mutation of the store for session s, on both representations.
Mutate(s, op, after, afterInPlace) ==
    /\ used.requests = 0
    /\ contexts' = after
    /\ heap' = afterInPlace
    /\ last' = [op |-> op, session |-> s, before |-> contexts]
    /\ UNCHANGED <<now, handler, metadataService, client, toolRegistry, sessionManager, inflight>>

\* The turns the stored history of s holds.
Pushed(s) == IF IsSome(contexts[s]) THEN Len(Get(contexts[s]).history) ELSE 0

StoreAppend(s) ==
    /\ used.storeTurns < MaxStoreTurns
    /\ used' = [used EXCEPT !.storeTurns = @ + 1]
    /\ \E turn \in {Turn(ToISOString(now), "user", Numeral(Pushed(s) + 1))} :
          Mutate(s, "addToHistory", addToHistory(contexts, s, turn),
                 addToHistoryInPlace(heap, s, turn))

\* addToHistory called n times for session s, on both representations.
RECURSIVE Filled(_, _, _, _)
Filled(store, h, s, n) ==
    IF n = 0 THEN [contexts |-> store, heap |-> h]
    ELSE With(Filled(store, h, s, n - 1), LAMBDA f :
             With(Turn(ToISOString(now), "user", Numeral(n)), LAMBDA turn :
                 [contexts |-> addToHistory(f.contexts, s, turn),
                  heap |-> addToHistoryInPlace(f.heap, s, turn)]))

\* A session that has talked up to the limit of its history: MAX_HISTORY_LENGTH
\* calls of addToHistory on a store that no mutation of this run has touched.
StoreFill(s) ==
    /\ heap = NewHeap
    /\ used.storeTurns = 0 /\ used.storeOps = 0
    /\ used' = [used EXCEPT !.storeTurns = 1]
    /\ \E f \in {Filled(contexts, heap, s, MAX_HISTORY_LENGTH)} :
          Mutate(s, "addToHistory", f.contexts, f.heap)

StoreUpdate(s) ==
    /\ used.storeOps < MaxStoreOps
    /\ used' = [used EXCEPT !.storeOps = @ + 1]
    /\ \E made \in {FreshQuery(heap, SampleQuery(now))} :
          Mutate(s, "updateLastQuery", updateLastQuery(contexts, s, SampleQuery(now)),
                 updateLastQueryInPlace(made.heap, s, made.ref))

StoreSetPage(s) ==
    /\ used.storeOps < MaxStoreOps
    /\ used' = [used EXCEPT !.storeOps = @ + 1]
    /\ Mutate(s, "setCurrentPage", setCurrentPage(contexts, s, SamplePage),
              setCurrentPageInPlace(heap, s, SamplePage))

StorePreferences(s, preferences) ==
    /\ used.storeOps < MaxStoreOps
    /\ used' = [used EXCEPT !.storeOps = @ + 1]
    /\ Mutate(s, "updatePreferences", updatePreferences(contexts, s, preferences),
              updatePreferencesInPlace(heap, s, preferences))

StoreClear(s) ==
    /\ used.storeOps < MaxStoreOps
    /\ used' = [used EXCEPT !.storeOps = @ + 1]
    /\ Mutate(s, "clearContext", clearContext(contexts, s), clearContextInPlace(heap, s))

IsolationProfile ==
    Profile(Sessions, {M_analyze, M_drill, M_hi}, {AnalyzeStatus, QueryPriority},
            {Data(<<Completed, Active>>)}, {ListFound}, {ServerError}, {"ok"}, FALSE)

\* A request to a handler whose store no mutation of this run has touched.
IsolationRequest ==
    /\ heap = NewHeap
    /\ used.storeTurns = 0 /\ used.storeOps = 0
    /\ Request(IsolationProfile)

NextIsolation ==
    \/ \E s \in Sessions : StoreFill(s)
    \/ \E s \in Sessions : StoreAppend(s)
    \/ \E s \in Sessions : StoreUpdate(s)
    \/ \E s \in Sessions : StoreSetPage(s)
    \/ \E s \in Sessions, preferences \in SamplePreferences : StorePreferences(s, preferences)
    \/ \E s \in Sessions : StoreClear(s)
    \/ IsolationRequest

SpecIsolation == Init /\ [][NextIsolation]_vars

\* The references a stored session holds: its context object, its history array
\* and, when it has one, its lastQuery object.
Held(s) == heap.objects[Get(heap.contexts[s])]

\* C15: No cross-session visibility.  A store mutation for session s, and a
\* handleMessage call for s, leave the stored state of every other session as it
\* was; the methods, which change objects in place, leave the store exactly as the
\* per-session reading says (so no change shows through a shared object); and two
\* stored sessions hold different context objects, history arrays and lastQuery
\* objects.
C15_NoCrossSession ==
    /\ last.op \in StoreMutations \cup {"handleMessage"} =>
           \A other \in Sessions \ {last.session} : contexts[other] = last.before[other]
    /\ used.requests = 0 => View(heap) = contexts
    /\ \A s, other \in Sessions :
           (s # other /\ IsSome(heap.contexts[s]) /\ IsSome(heap.contexts[other])) =>
               /\ heap.contexts[s] # heap.contexts[other]
               /\ Held(s).history # Held(other).history
               /\ (IsSome(Held(s).lastQuery) /\ IsSome(Held(other).lastQuery)) =>
                      Held(s).lastQuery # Held(other).lastQuery

\* Both sessions are stored, each with turns and a lastQuery; the last mutation
\* pushed the 21st turn of one of them, whose history moved to a new array, and the
\* other session is as it was.
C15_Witness ==
    \E s, other \in Sessions :
        /\ s # other
        /\ last.op = "addToHistory" /\ last.session = s
        /\ IsSome(contexts[s]) /\ IsSome(contexts[other])
        /\ IsSome(last.before[s]) /\ Len(Get(last.before[s]).history) = 20
        /\ Len(Get(contexts[s]).history) = 20
        /\ Len(Get(contexts[other]).history) = 1
        /\ IsSome(Get(contexts[s]).lastQuery) /\ IsSome(Get(contexts[other]).lastQuery)
        /\ contexts[other] = last.before[other]
        /\ Held(s).history = 3

----------------------------------------------------------------------------
\* The running server: chat requests, the clock, and the one timer the server
\* sets in app.listen, which refreshes the capabilities every 10 minutes.  No
\* statement of the server calls cleanupExpiredContexts.

ServerProfile ==
    Profile(Sessions, {M_analyze}, {AnalyzeStatus}, {Data(<<Completed, Active>>)},
            {ListFound}, {ServerError}, {"ok"}, FALSE)

\* What the probes of validateCapabilities find.
Probes ==
    [projects : BOOLEAN, tasks : {TRUE}, resources : {TRUE}, customObjects : {FALSE}]

\* POST /api/chat
ChatRequest == Request(ServerProfile)

ClockTick == \E d \in TickSteps : Tick(d)

\* The callback of setInterval, when it finds the capabilities older than 10 minutes.
RefreshCapabilities ==
    /\ needsRefresh(toolRegistry, now)
    /\ \E probes \in Probes : toolRegistry' = validateCapabilities(toolRegistry, now, probes)
    /\ last' = [op |-> "refreshCapabilities", at |-> now]
    /\ UNCHANGED <<contexts, now, handler, metadataService, client, sessionManager, inflight,
                   heap, used>>

NextServer == ChatRequest \/ ClockTick \/ RefreshCapabilities

\* Time passes and the timer fires; nothing obliges a client to send a request.
SpecServer ==
    Init /\ [][NextServer]_vars /\ WF_vars(ClockTick) /\ WF_vars(RefreshCapabilities)

\* A stored session whose last history entry is more than 30 minutes old.
IdleSession(s) ==
    /\ IsSome(contexts[s])
    /\ Len(Get(contexts[s]).history) > 0
    /\ IsExpired(Get(contexts[s]), now)

\* C16: Idle sessions are destroyed.  In the running server, a session whose last
\* history entry has become more than 30 minutes old is eventually absent from the
\* store, without any further request.
C16_IdleDestroyed == \A s \in Sessions : IdleSession(s) ~> (contexts[s] = None)

\* The timer of the server fired more than 40 minutes after the last turn of a
\* session, and the session is still stored.
C16_Witness ==
    \E s \in Sessions :
        /\ IdleSession(s)
        /\ last.op = "refreshCapabilities"
        /\ last.at - LastActivity(Get(contexts[s])) > CONTEXT_EXPIRY_MS + CAPABILITY_MAX_AGE_MS
----------------------------------------------------------------------------
\* Discovery of the object types, against remote systems that answer anything.

\* Calls of discoverAllObjects in one run.
MaxDiscoveries == 3

\* Entries of a describe response: with and without a resourceName and a label.
Descriptors ==
    { [resourceName |-> Some(projects), label |-> Some(<<"P", "r", "o", "j", "e", "c", "t", "s">>)],
      [resourceName |-> Some(custWidget), label |-> Some(<<"W", "i", "d", "g", "e", "t", "s">>)],
      [resourceName |-> Some(<<"c", "u", "s", "t", "D", "r", "a", "f", "t">>), label |-> None],
      [resourceName |-> Some(<< >>), label |-> Some(<<"B", "l", "a", "n", "k">>)],
      [resourceName |-> None, label |-> Some(<<"N", "a", "m", "e", "l", "e", "s", "s">>)] }

\* _results of GET /describe?limit=500
DescribeResults ==
    {<< >>} \cup {<<a>> : a \in Descriptors} \cup {<<a, b>> : a, b \in Descriptors}

\* One call of discoverAllObjects(false).
Discover(outcome, all) ==
    /\ used.requests < MaxDiscoveries
    /\ used' = [used EXCEPT !.requests = @ + 1]
    /\ \E r \in {discoverAllObjectsFrom(metadataService, now, outcome, all,
                                        DescribeCustomResponse)} :
          /\ metadataService' = r.md
          /\ last' = [op |-> "discoverAllObjects", outcome |-> outcome, all |-> all,
                      fresh |-> DiscoveryIsFresh(metadataService, now),
                      before |-> metadataService, value |-> r.value, calls |-> r.calls]
    /\ UNCHANGED <<contexts, now, handler, client, toolRegistry, sessionManager, inflight,
                   heap>>

NextDiscovery ==
    \/ \E outcome \in DiscoveryOutcomes, all \in DescribeResults : Discover(outcome, all)
    \/ Tick(31 * MinuteMs)

SpecDiscovery == Init /\ [][NextDiscovery]_vars

\* C17: discoverAllObjects never fails the caller.  Every call returns a list:
\* when one of the two describe calls fails, the standard list; when both
\* succeed, a list that holds every described resourceName and every standard
\* name; and within the lifetime of the cache, the list of the last discovery.
\* Every returned list holds all standard names.
C17_DiscoveryTotal ==
    last.op = "discoverAllObjects" =>
        /\ \A i \in 1..Len(STANDARD_OBJECTS) : InSeq(last.value, STANDARD_OBJECTS[i])
        /\ (~last.fresh /\ last.outcome # "ok") => last.value = STANDARD_OBJECTS
        /\ (~last.fresh /\ last.outcome = "ok") =>
               \A i \in 1..Len(last.all) :
                   (IsSome(last.all[i].resourceName)
                    /\ Get(last.all[i].resourceName) # << >>) =>
                       InSeq(last.value, Get(last.all[i].resourceName))
        /\ last.fresh => last.value = Get(last.before.discoveredObjects)
        /\ metadataService.discoveredObjects = Some(last.value)

\* The second describe call failed once the cache of an earlier, successful
\* discovery with two custom names had run out: the standard list is returned.
C17_Witness ==
    /\ last.op = "discoverAllObjects"
    /\ ~last.fresh /\ last.outcome = "secondCallFails"
    /\ Len(last.calls) = 2
    /\ IsSome(last.before.discoveredObjects)
    /\ Len(Get(last.before.discoveredObjects)) = Len(STANDARD_OBJECTS) + 2
    /\ last.value = STANDARD_OBJECTS

\* Both calls succeeded and the list holds a discovered name and the standard ones.
C17_WitnessSuccess ==
    /\ last.op = "discoverAllObjects"
    /\ ~last.fresh /\ last.outcome = "ok"
    /\ InSeq(last.value, custWidget)
    /\ Len(last.value) = Len(STANDARD_OBJECTS) + 1
----------------------------------------------------------------------------
\* The schema caches of the MetadataService and of the handler, against a remote
\* system whose describe answer may differ from call to call.

\* Calls of getObjectMetadata in one run.
MaxSchemaCalls == 4

\* Answers of GET /describe/{objectType}?includeAttributes=true
SchemaResponses(objectType) ==
    { DescribeResponse(objectType),
      [label |-> Some(<<"R", "e", "n", "a", "m", "e", "d">>), pluralLabel |-> None, isCustom |-> FALSE,
       attributes |-> <<RawAttribute(Some(<<"s", "t", "a", "t", "u", "s">>), None, None, None, FALSE, None)>>],
      [label |-> None, pluralLabel |-> None, isCustom |-> TRUE, attributes |-> << >>] }

SchemaErrors == {ServerError, <<"H", "T", "T", "P", " ", "4", "0", "4", ":", " ", "R", "e",
                                "s", "o", "u", "r", "c", "e", " ", "n", "o", "t", " ", "f",
                                "o", "u", "n", "d">>}

Counted ==
    /\ used.requests < MaxSchemaCalls
    /\ used' = [used EXCEPT !.requests = @ + 1]
    /\ UNCHANGED <<contexts, now, client, toolRegistry, sessionManager, inflight, heap>>

\* metadataService.getObjectMetadata(objectType), as getGroupableFields and the
\* label lookups call it
ServiceGetSchema(objectType, outcome, response) ==
    /\ Counted
    /\ \E r \in {serviceGetObjectMetadataFrom(metadataService, objectType, outcome, response)} :
          /\ metadataService' = r.md
          /\ last' = [op |-> "getObjectMetadata", level |-> "service",
                      objectType |-> objectType, outcome |-> outcome, response |-> response,
                      value |-> r.value, threw |-> r.threw, calls |-> r.calls]
    /\ UNCHANGED handler

\* this.getObjectMetadata(objectType) of the handler
HandlerGetSchema(objectType, outcome, response) ==
    /\ Counted
    /\ \E r \in {getObjectMetadataFrom([handler |-> handler, md |-> metadataService,
                                        calls |-> << >>], objectType, outcome, response)} :
          /\ metadataService' = r.st.md
          /\ handler' = r.st.handler
          /\ last' = [op |-> "getObjectMetadata", level |-> "handler",
                      objectType |-> objectType, outcome |-> outcome, response |-> response,
                      value |-> r.value, threw |-> r.threw, calls |-> r.st.calls]

NextSchema ==
    \E objectType \in ObjectTypes, outcome \in {None} \cup {Some(e) : e \in SchemaErrors} :
        \E response \in SchemaResponses(objectType) :
            \/ ServiceGetSchema(objectType, outcome, response)
            \/ HandlerGetSchema(objectType, outcome, response)

SpecSchema == Init /\ [][NextSchema]_vars

\* The entry a call of getObjectMetadata finds: the handler looks in its own cache
\* and then, through the service, in the service's.
CachedSchema(h, md, level, objectType) ==
    IF level = "handler" /\ IsSome(h.metadataCache[objectType])
    THEN h.metadataCache[objectType]
    ELSE md.metadataCache[objectType]

\* A call of getObjectMetadata(T) that found found in the caches and returned as
\* last' tells: a cached entry is returned without a remote call; on a miss, one
\* remote call is made, and its error is thrown or the entry built from its
\* answer is returned.
SchemaCall(found, T) ==
    /\ IsSome(found) =>
           last'.value = found /\ last'.threw = None /\ last'.calls = << >>
    /\ (~IsSome(found) /\ IsSome(last'.outcome)) =>
           /\ last'.threw = last'.outcome /\ last'.value = None
           /\ last'.calls = <<DescribeCall(T)>>
           /\ metadataService'.metadataCache[T] = None
           /\ handler'.metadataCache[T] = None
    /\ (~IsSome(found) /\ ~IsSome(last'.outcome)) =>
           /\ last'.threw = None
           /\ last'.value = Some(BuildMetadata(T, last'.response))
           /\ last'.calls = <<DescribeCall(T)>>
           /\ metadataService'.metadataCache[T] = last'.value

\* C18: getObjectMetadata is cached with fetch-on-miss.  In every step: an entry
\* that is cached stays cached and unchanged (so after one successful call for T
\* every later call finds that entry); a call for T that finds an entry returns
\* it without a remote call; a call that finds none makes one remote call, and
\* when that fails the call throws the error and neither cache has an entry for T
\* afterwards; when it succeeds the entry built from the answer is returned and
\* cached.
C18_SchemaCache ==
    [][ /\ \A T \in ObjectTypes :
              /\ IsSome(metadataService.metadataCache[T]) =>
                     metadataService'.metadataCache[T] = metadataService.metadataCache[T]
              /\ IsSome(handler.metadataCache[T]) =>
                     /\ handler'.metadataCache[T] = handler.metadataCache[T]
                     /\ handler.metadataCache[T] = metadataService.metadataCache[T]
        /\ last'.op = "getObjectMetadata" =>
              SchemaCall(CachedSchema(handler, metadataService, last'.level,
                                      last'.objectType), last'.objectType)
      ]_vars

\* The third call of a run, by the handler for projects, for which the remote
\* system had another answer ready, returned the entry cached from an earlier
\* answer without a remote call.
C18_Witness ==
    /\ used.requests = 3
    /\ last.op = "getObjectMetadata" /\ last.level = "handler"
    /\ last.objectType = projects
    /\ last.calls = << >>
    /\ last.outcome = None
    /\ IsSome(last.value)
    /\ last.value # Some(BuildMetadata(projects, last.response))
    /\ last.value = Some(BuildMetadata(projects, DescribeResponse(projects)))
    /\ metadataService.metadataCache[custWidget] = None
----------------------------------------------------------------------------
\* Permission sessions: the session endpoints of the server.

\* Calls of the session endpoints in one run.
MaxSessionCalls == 3

\* Bodies of POST /api/session.
SessionConfigs(s) ==
    { SessionConfig(s, Some(<<"u", "1">>), Some(<<"d", "a", "n", "a">>), Some("readonly"), None, None, None, None,
                    Some(60)),
      SessionConfig(s, Some(<<"u", "1">>), Some(<<"d", "a", "n", "a">>), Some("editor"), None, None,
                    Some(<<custWidget>>), Some(<<"t", "e", "a", "m">>), Some(30)),
      SessionConfig(s, None, None, Some("readonly"), None, Some(<<projects>>), None, None,
                    Some(30)) }

ExtendMinutes == {30, 60}

SessionCall ==
    /\ used.requests < MaxSessionCalls
    /\ used' = [used EXCEPT !.requests = @ + 1]
    /\ UNCHANGED <<contexts, now, handler, metadataService, client, inflight, heap>>

\* POST /api/session
CreateSession(config) ==
    /\ SessionCall
    /\ \E r \in {createSession(toolRegistry, sessionManager, config, now)} :
          /\ toolRegistry' = r.reg
          /\ sessionManager' = r.sm
          /\ last' = [op |-> "createSession", session |-> config.sessionId, at |-> now,
                      before |-> toolRegistry, info |-> r.info]

\* GET /api/session/:sessionId
GetSession(s) ==
    /\ SessionCall
    /\ \E r \in {getSession(toolRegistry, sessionManager, s, now)} :
          /\ toolRegistry' = r.reg
          /\ sessionManager' = r.sm
          /\ last' = [op |-> "getSession", session |-> s, at |-> now,
                      before |-> toolRegistry, info |-> r.info]

\* DELETE /api/session/:sessionId
EndSession(s) ==
    /\ SessionCall
    /\ \E r \in {endSession(toolRegistry, sessionManager, s)} :
          /\ toolRegistry' = r.reg
          /\ sessionManager' = r.sm
          /\ last' = [op |-> "endSession", session |-> s, at |-> now,
                      before |-> toolRegistry, info |-> None]

\* POST /api/session/:sessionId/refresh
RefreshSession(s, extendMinutes) ==
    /\ SessionCall
    /\ \E r \in {refreshSession(toolRegistry, sessionManager, s, extendMinutes, now)} :
          /\ toolRegistry' = r.reg
          /\ sessionManager' = r.sm
          /\ last' = [op |-> "refreshSession", session |-> s, at |-> now,
                      extendMinutes |-> extendMinutes, before |-> toolRegistry,
                      info |-> r.info]

NextSessions ==
    \/ \E s \in Sessions : \E config \in SessionConfigs(s) : CreateSession(config)
    \/ \E s \in Sessions : GetSession(s)
    \/ \E s \in Sessions : EndSession(s)
    \/ \E s \in Sessions, extendMinutes \in ExtendMinutes : RefreshSession(s, extendMinutes)
    \/ \E d \in TickSteps : Tick(d)

SpecSessions == Init /\ [][NextSessions]_vars

\* The session a call at time t finds in the registry: None when it is missing or
\* has expired.
LiveSession(reg, s, t) == getSessionPermissions(reg, s, t).session

\* C19: Refreshing a live permission session only extends it.  After
\* refreshSession(s, m) on a live session, the session has the permissions it had,
\* validateObjectAccess answers for every object type as it did before, and the
\* session expires m minutes after the call; on a missing or expired session the
\* call returns null and no session is stored.
C19_RefreshOnlyExtends ==
    last.op = "refreshSession" =>
        IF IsSome(LiveSession(last.before, last.session, last.at))
        THEN /\ IsSome(last.info)
             /\ IsSome(toolRegistry.sessionPermissions[last.session])
             /\ Get(toolRegistry.sessionPermissions[last.session]).permissions
                    = Get(LiveSession(last.before, last.session, last.at)).permissions
             /\ \A objectType \in ObjectTypes :
                    validateObjectAccess(toolRegistry, last.session, objectType, last.at)
                        = validateObjectAccess(last.before, last.session, objectType, last.at)
             /\ Get(toolRegistry.sessionPermissions[last.session]).expiresAt
                    = Some(last.at + last.extendMinutes * MinuteMs)
        ELSE /\ last.info = None
             /\ toolRegistry.sessionPermissions[last.session] = None

\* A session that was denied custWidget was refreshed while it was live: it has
\* the same permissions, a later expiry and now answers that custWidget is allowed.
C19_Witness ==
    /\ last.op = "refreshSession"
    /\ IsSome(LiveSession(last.before, last.session, last.at))
    /\ Get(LiveSession(last.before, last.session, last.at)).deniedObjects
           = Some(<<custWidget>>)
    /\ ~validateObjectAccess(last.before, last.session, custWidget, last.at).allowed
    /\ validateObjectAccess(toolRegistry, last.session, custWidget, last.at).allowed
    /\ Get(toolRegistry.sessionPermissions[last.session]).permissions
           = Get(LiveSession(last.before, last.session, last.at)).permissions
    /\ Get(toolRegistry.sessionPermissions[last.session]).deniedObjects = None
----------------------------------------------------------------------------
\* POST /api/chat/secure: the chat of a permission session.

SecureProfile ==
    Profile({"s1"}, {M_delete}, {DeleteReply, CreateReply, UpdateReply},
            {NoData}, {ListFound}, {ServerError}, {"ok"}, FALSE)

\* The session the endpoint creates for a sessionId it does not know.
DefaultSession(s) ==
    SessionConfig(s, None, None, Some("readonly"), None, None, None, None, Some(30))

\* Bodies of POST /api/session that the clients of the secure chat send.
SecureConfigs(s) ==
    { SessionConfig(s, Some(<<"u", "1">>), Some(<<"d", "a", "n", "a">>), Some(role), None, None, None, None,
                    Some(60)) : role \in {"readonly", "editor"} }

\* getSession(sid), createSession when it is null, then handleMessage(message, sid).
SecureChat(profile) ==
    /\ used.requests < MaxRequests
    /\ \E s \in profile.sessions, m \in profile.messages :
          /\ \E g \in {getSession(toolRegistry, sessionManager, s, now)} :
                \E c \in {IF IsSome(g.info) THEN g
                          ELSE createSession(g.reg, g.sm, DefaultSession(s), now)} :
                    /\ toolRegistry' = c.reg
                    /\ sessionManager' = c.sm
          /\ Handled(profile, s, m)
    /\ used' = [used EXCEPT !.requests = @ + 1]
    /\ UNCHANGED <<now, client, inflight, heap>>

\* POST /api/session before any chat.
SecureSession(config) ==
    /\ used.requests = 0
    /\ toolRegistry.sessionPermissions[config.sessionId] = None
    /\ \E r \in {createSession(toolRegistry, sessionManager, config, now)} :
          /\ toolRegistry' = r.reg
          /\ sessionManager' = r.sm
          /\ last' = [op |-> "createSession", session |-> config.sessionId, at |-> now,
                      before |-> toolRegistry, info |-> r.info]
    /\ UNCHANGED <<contexts, now, handler, metadataService, client, inflight, heap, used>>

NextSecure ==
    \/ \E s \in SecureProfile.sessions : \E config \in SecureConfigs(s) : SecureSession(config)
    \/ SecureChat(SecureProfile)
    \/ Tick(29 * MinuteMs)

SpecSecure == Init /\ [][NextSecure]_vars

\* The methods of the remote calls of the last request.
MethodsCalled == {last.calls[i].method : i \in 1..Len(last.calls)}

\* The permissions of the session the last request ran in.
PermissionsOf(s) == Get(toolRegistry.sessionPermissions[s]).permissions

\* C20: Secure chat validates tool access.  A message sent to /api/chat/secure
\* in a session without the write permission causes no POST and no PATCH remote
\* call, and in a session without the delete permission no DELETE remote call.
C20_SecureChatValidates ==
    last.op = "handleMessage" =>
        /\ ~InSeq(PermissionsOf(last.session), "write") =>
               MethodsCalled \cap {"POST", "PATCH"} = {}
        /\ ~InSeq(PermissionsOf(last.session), "delete") =>
               MethodsCalled \cap {"DELETE"} = {}

\* The first message of an unknown session, for which the endpoint created the
\* readonly session, deleted a record of the remote system.
C20_Witness ==
    /\ last.op = "handleMessage"
    /\ used.requests = 1
    /\ last.message = M_delete
    /\ PermissionsOf(last.session) = <<"read">>
    /\ Get(toolRegistry.sessionPermissions[last.session]).expiresAt
           = Some(now + 30 * MinuteMs)
    /\ ~validateToolAccess(toolRegistry, last.session, "delete_record", now).allowed
    /\ "DELETE" \in MethodsCalled
    /\ IsSome(last.response) /\ Get(last.response).success

\* A session created as readonly changed a record through the secure chat.
C20_WitnessWrite ==
    /\ last.op = "handleMessage"
    /\ PermissionsOf(last.session) = <<"read">>
    /\ Get(toolRegistry.sessionPermissions[last.session]).userId = Some(<<"u", "1">>)
    /\ "PATCH" \in MethodsCalled
----------------------------------------------------------------------------
\* The bound of the retry loop.

\* The waits of a request all of whose n attempts failed and were retried:
\* 1000 * k after the k-th attempt, none after the last.
WaitsOf(n) == [k \in 1..(IF n > 0 THEN n - 1 ELSE 0) |-> 1000 * k]

\* No attempt of the request failed with HTTP 401 or 403.
NoAuthFailure == \A k \in 1..Len(client.outcomes) : ~AuthFailure(client.outcomes[k])

\* C21: Retry bound.  A request whose every attempt failed, none of them
\* with HTTP 401 or 403, has made exactly maxRetries attempts, has waited 1000 * k
\* ms after the k-th attempt for k < maxRetries and not after the last, and has
\* thrown the error of its last attempt; a request that returned did so on its
\* first successful attempt; and no request makes more than maxRetries attempts.
C21_RetryBound ==
    /\ Len(client.outcomes) <= client.maxRetries
    /\ (client.pc = "thrown" /\ NoAuthFailure /\ client.maxRetries > 0) =>
           /\ Len(client.outcomes) = client.maxRetries
           /\ client.waits = WaitsOf(client.maxRetries)
           /\ client.thrown = Some(ErrorMessage(client.outcomes[Len(client.outcomes)]))
    /\ client.pc = "returned" =>
           /\ client.outcomes[Len(client.outcomes)].kind = "ok"
           /\ \A k \in 1..(Len(client.outcomes) - 1) : client.outcomes[k].kind # "ok"
           /\ client.waits = WaitsOf(Len(client.outcomes))

\* A client with three retries got a 502 whose body mentions 403 on its first
\* attempt and threw it without a second attempt and without a wait.
C21_Witness ==
    /\ client.maxRetries = 3
    /\ client.pc = "thrown"
    /\ client.outcomes = <<HttpFailure(502, <<"u", "p", "s", "t", "r", "e", "a", "m", " ", "a", "n", "s",
                                        "w", "e", "r", "e", "d", " ", "4", "0", "3">>)>>
    /\ client.waits = << >>
    /\ client.thrown = Some(<<"H", "T", "T", "P", " ", "5", "0", "2", ":", " ", "u", "p",
                              "s", "t", "r", "e", "a", "m", " ", "a", "n", "s", "w", "e",
                              "r", "e", "d", " ", "4", "0", "3">>)

\* The same for the requests none of whose errors holds the text 401 or 403.
C21_RetryBoundOfPlainErrors ==
    (\A k \in 1..Len(client.outcomes) :
        client.outcomes[k].kind = "ok" \/ ~IsAuthError(ErrorMessage(client.outcomes[k])))
    => C21_RetryBound

\* Three attempts failed with plain errors, with waits of 1000 and 2000 ms.
C21_WitnessExhausted ==
    /\ client.maxRetries = 3
    /\ client.pc = "thrown"
    /\ Len(client.outcomes) = 3
    /\ client.waits = <<1000, 2000>>
    /\ client.thrown = Some(<<"H", "T", "T", "P", " ", "5", "0", "0", ":", " ">>)
----------------------------------------------------------------------------
\* clearContext and the sweep while a request is suspended at its data fetch.

RaceProfile ==
    Profile({"s1"}, {M_analyze}, {AnalyzeStatus},
            {Data(<<Completed, Active>>)}, {ListFound}, {}, {"ok"}, FALSE)

NextRace ==
    \/ \E s \in RaceProfile.sessions, m \in RaceProfile.messages : StartCallOf(RaceProfile, s, m)
    \/ \E i \in 1..MaxCalls : CompleteCall(i)
    \/ \E s \in RaceProfile.sessions : ClearContext(s)
    \/ SweepExpired
    \/ \E d \in TickSteps : Tick(d)

SpecRace == Init /\ [][NextRace]_vars

\* The user turn handleMessage recorded when call c started.
UserTurnOf(c) == Turn(ToISOString(c.startedAt), "user", c.message)

\* C22: Sweep and clear do not race destructively with an in-flight request.  When
\* a handleMessage call that was suspended at its data fetch completes and changes
\* the stored state of its session, the state it leaves still holds the history of
\* the request: the user turn recorded when the call started.
C22_NoDestructiveRace ==
    last.op = "completeCall" =>
        LET c == inflight.calls[last.index]
        IN  contexts[c.session] # last.before[c.session] =>
                /\ IsSome(contexts[c.session])
                /\ \E k \in 1..Len(Get(contexts[c.session]).history) :
                       Get(contexts[c.session]).history[k] = UserTurnOf(c)

\* clearContext ran while an analysis was suspended, within the same millisecond
\* as the call: the completed call stored its chart in a context created anew,
\* whose history holds the assistant turn alone.
C22_Witness ==
    /\ last.op = "completeCall"
    /\ last.message = M_analyze
    /\ last.before[last.session] = None
    /\ inflight.calls[last.index].endedAt = inflight.calls[last.index].startedAt
    /\ IsSome(contexts[last.session])
    /\ IsSome(Get(contexts[last.session]).lastQuery)
    /\ IsSome(Get(Get(contexts[last.session]).lastQuery).chartData)
    /\ Len(Get(contexts[last.session]).history) = 1
    /\ Get(contexts[last.session]).history[1].role = "assistant"

\* The sweep ran while a call was suspended for more than 30 minutes.
C22_WitnessSweep ==
    /\ last.op = "completeCall"
    /\ last.before[last.session] = None
    /\ used.appends[last.session] = 0
    /\ inflight.calls[last.index].endedAt - inflight.calls[last.index].startedAt
           > CONTEXT_EXPIRY_MS
    /\ IsSome(contexts[last.session])
    /\ Len(Get(contexts[last.session]).history) = 1
----------------------------------------------------------------------------
\* A drill-down that is suspended at its fetch while another request of the same
\* session changes the chart.

DrillProfile ==
    Profile({"s1"}, {M_analyze, M_drill}, {AnalyzeStatus, AnalyzePriority},
            {Data(<<Completed, Active>>)}, {ListFound}, {}, {"ok"}, FALSE)

DrillRequest == Request(DrillProfile)

NextDrill ==
    \/ DrillRequest
    \/ \E s \in DrillProfile.sessions, m \in DrillProfile.messages : StartCallOf(DrillProfile, s, m)
    \/ \E i \in 1..MaxCalls : CompleteCall(i)

SpecDrill == Init /\ [][NextDrill]_vars

\* The last step was a drill-down that wrote the query memory of its session.
DrillDownWrote ==
    /\ last.op \in {"completeCall", "handleMessage"}
    /\ LastQueryOf(contexts, last.session) # LastQueryOf(last.before, last.session)
    /\ IsSome(LastQueryOf(contexts, last.session))
    /\ Get(LastQueryOf(contexts, last.session)).action = "drilldown"
    /\ last.op = "completeCall" => inflight.calls[last.index].wrote

\* filters {F: L} names the field and a label of the chart of memory.
FiltersMatch(filters, memory) ==
    /\ Len(filters) = 1
    /\ IsSome(memory)
    /\ Get(memory).groupByField = Some(filters[1].key)
    /\ IsSome(Get(memory).chartData)
    /\ IsSome(Lookup(Get(Get(memory).chartData), filters[1].key))
    /\ InSeq(Labels(Get(Lookup(Get(Get(memory).chartData), filters[1].key))), filters[1].value)

\* C23: Drill-down consistency under same-session interleaving.  Whenever a
\* drill-down writes lastQuery with filters {F: L}, F is the groupByField and L a
\* label of the chartData of the lastQuery the session holds at the moment of the
\* write, also when another request of the session completed while the remote
\* call of the drill-down was in flight.
C23_DrillDownConsistent ==
    DrillDownWrote =>
        FiltersMatch(Get(Get(LastQueryOf(contexts, last.session)).filters),
                     LastQueryOf(last.before, last.session))

\* A drill-down into the chart by status was suspended, an analysis by priority
\* completed, and the drill-down then wrote filters {status: Active} over a
\* memory grouped by priority.
C23_Witness ==
    /\ DrillDownWrote
    /\ last.op = "completeCall"
    /\ Get(Get(LastQueryOf(contexts, last.session)).filters)
           = <<[key |-> <<"s", "t", "a", "t", "u", "s">>, value |-> <<"A", "c", "t", "i", "v", "e">>]>>
    /\ Get(LastQueryOf(last.before, last.session)).groupByField = Some(<<"p", "r", "i", "o", "r", "i", "t", "y">>)
    /\ IsSome(Get(LastQueryOf(last.before, last.session)).chartData)

\* The same for the drill-downs that ran from their first statement to their
\* return with no other request of the session in between.
C23_DrillDownConsistentAlone ==
    (DrillDownWrote /\ last.op = "handleMessage") => C23_DrillDownConsistent

C23_WitnessAlone ==
    /\ DrillDownWrote
    /\ last.op = "handleMessage"
    /\ Get(Get(LastQueryOf(contexts, last.session)).filters)
           = <<[key |-> <<"s", "t", "a", "t", "u", "s">>, value |-> <<"A", "c", "t", "i", "v", "e">>]>>
----------------------------------------------------------------------------
\* Follow-ups and the reasoning service.

BypassProfile ==
    Profile(Sessions, {M_analyze, M_drill, M_count, M_export, M_details}, {AnalyzeStatus},
            {Data(<<Completed, Active>>)}, {ListFound}, {ServerError}, {"ok"}, FALSE)

BypassRequest == Request(BypassProfile)

NextBypass ==
    \/ BypassRequest
    \/ Tick(MinuteMs)

SpecBypass == Init /\ [][NextBypass]_vars

\* The last request was a message the classifier gave a follow-up type other than
\* link, for a session that could drill down when the request began.
FollowUpHandled(types) ==
    /\ last.op = "handleMessage"
    /\ detectFollowUpIntent(last.message).type \in types
    /\ canDrillDown(last.before, last.session)

\* C24: Follow-ups bypass the planner.  Whenever the classifier returns a follow-up
\* type other than link for a message and canDrillDown is true for the session, the
\* message is answered by the follow-up path and the reasoning service is not
\* invoked for it.
C24_FollowUpsBypassPlanner ==
    FollowUpHandled({"showSelected", "export", "count", "details", "filter"}) =>
        /\ last.path = "followUp"
        /\ last.ai = 0

\* "tell me more" after a chart: the type is details, handleFollowUp returns null
\* and the message goes to the reasoning service.
C24_Witness ==
    /\ FollowUpHandled({"details"})
    /\ last.message = M_details
    /\ last.path \in {"plan", "error"}
    /\ last.ai = 1

\* The same for the types handleFollowUp has a case for.
C24_HandledTypesBypassPlanner ==
    FollowUpHandled({"showSelected", "export", "count"}) =>
        /\ last.path = "followUp"
        /\ last.ai = 0

C24_WitnessHandled ==
    /\ FollowUpHandled({"showSelected"})
    /\ last.path = "followUp"
    /\ last.ai = 0
    /\ IsSome(last.response) /\ Get(last.response).success
----------------------------------------------------------------------------
\* A link to a record that does not exist.

NotFoundProfile ==
    Profile(Sessions, {M_linkTo, M_linkAll}, {AIReply("error", NoPlan), HelpReply},
            {NoData}, {ListFound}, {ServerError}, {"ok"}, FALSE)

NotFoundRequest == Request(NotFoundProfile)

NextNotFound ==
    \/ NotFoundRequest
    \/ Tick(MinuteMs)

SpecNotFound == Init /\ [][NextNotFound]_vars

\* The request was "link to zzz": zzz is no generic word and matches no custom
\* object, and the lookups by code and by name both found no project.
LinkNotFound ==
    /\ Requested
    /\ last.message = M_linkTo
    /\ last.o.find = "none"
    /\ InSeq(last.calls, FindByCodeCall(projects, <<"z", "z", "z">>))
    /\ InSeq(last.calls, FindByNameCall(projects, <<"z", "z", "z">>))

\* C25: Link not-found is reported.  For "link to <name>" where <name> is no
\* generic pronoun, matches no custom object and no project is found by code or by
\* name, the response of handleMessage is the not-found failure naming <name>, and
\* the reasoning service is not invoked.
C25_LinkNotFoundReported ==
    LinkNotFound =>
        /\ IsSome(last.response)
        /\ ~Get(last.response).success
        /\ Includes(Get(last.response).reply, <<"C", "o", "u", "l", "d", " ", "n", "o", "t", " ", "f", "i",
                                        "n", "d", " ", "\"", "z", "z", "z", "\"">>)
        /\ last.ai = 0

\* The not-found failure was dropped: the message went to the reasoning service
\* and the caller got the help text of the plan.
C25_Witness ==
    /\ LinkNotFound
    /\ last.path = "plan"
    /\ last.ai = 1
    /\ last.o.reply = HelpReply
    /\ Get(last.response).success
    /\ ~Includes(Get(last.response).reply, <<"C", "o", "u", "l", "d", " ", "n", "o", "t", " ", "f", "i", "n", "d">>)
----------------------------------------------------------------------------
\* Mutations and the query memory.

MutateProfile ==
    Profile({"s1"}, {M_analyze, M_delete},
            {AnalyzeStatus, CreateReply, UpdateReply, DeleteReply},
            {Data(<<Completed, Active>>)}, {ListFound}, {ServerError}, {"ok"}, FALSE)

MutateRequest == Request(MutateProfile)

NextMutate ==
    \/ MutateRequest
    \/ Tick(MinuteMs)

SpecMutate == Init /\ [][NextMutate]_vars

\* The request got a create, update or delete plan from the reasoning service
\* and executed it.
MutationExecuted ==
    /\ Requested
    /\ last.ai = 1
    /\ last.o.reply \in {CreateReply, UpdateReply, DeleteReply}

\* C26: Mutations leave drill-down state alone.  Executing a create, update or
\* delete plan, whether the mutation succeeds, the record is not found or the
\* remote call fails, leaves the lastQuery of the session unchanged, and
\* canDrillDown has the same value before and after.
C26_MutationsKeepLastQuery ==
    MutationExecuted =>
        /\ LastQueryOf(contexts, last.session) = LastQueryOf(last.before, last.session)
        /\ canDrillDown(contexts, last.session) <=> canDrillDown(last.before, last.session)

\* A session that holds a chart deleted a record, and can still drill down.
C26_Witness ==
    /\ MutationExecuted /\ HadChart
    /\ last.o.reply = DeleteReply
    /\ Len(CallsBy("executeDelete")) = 1
    /\ Get(last.response).success
    /\ canDrillDown(contexts, last.session)

\* The same when the record of an update is not found.
C26_WitnessNotFound ==
    /\ MutationExecuted /\ HadChart
    /\ last.o.reply = UpdateReply
    /\ last.o.record = "none"
    /\ last.path = "plan"
    /\ ~Get(last.response).success
    /\ canDrillDown(contexts, last.session)

\* The same when the POST of a create fails.
C26_WitnessFails ==
    /\ MutationExecuted /\ HadChart
    /\ last.o.reply = CreateReply
    /\ last.o.mutation = "fails"
    /\ Len(CallsBy("executeCreate")) = 1
    /\ last.path = "error"
    /\ canDrillDown(contexts, last.session)
----------------------------------------------------------------------------
\* Describe and help plans and the conversation state.

DescribeProfile ==
    Profile({"s1"}, {M_analyze}, {AnalyzeStatus, DescribeStage, HelpReply},
            {Data(<<Completed, Active>>)}, {ListFound}, {ServerError}, {"ok"}, FALSE)

DescribeRequest == Request(DescribeProfile)

NextDescribe ==
    \/ DescribeRequest
    \/ Tick(MinuteMs)

SpecDescribe == Init /\ [][NextDescribe]_vars

\* The request got a describe or a help plan and executed it.
DescribeHandled ==
    /\ Requested
    /\ last.path = "plan"
    /\ Get(last.plan).action \in {<<"d", "e", "s", "c", "r", "i", "b", "e">>, <<"h", "e", "l", "p">>}

\* The conversation state of the session before and after the request.
StateBefore == getContext(last.before, last.session)
StateAfter == getContext(contexts, last.session)

\* The two turns handleMessage records for a planned message: the user turn
\* before the plan is made and the assistant turn after it is executed.
TurnsOf(message, plan, response, t) ==
    << Turn(ToISOString(t), "user", message),
       AssistantTurn(ToISOString(t), Substring(response.reply, 200), plan.action,
                     Some(plan.objectType), response.success) >>

C27_WitnessHelp ==
    /\ DescribeHandled /\ HadChart
    /\ Get(last.plan).action = <<"h", "e", "l", "p">>
    /\ canDrillDown(contexts, last.session)
----------------------------------------------------------------------------
\* The lifetime of the discovered object types, against a remote system that
\* gains an object type.

\* Calls of discoverAllObjects and messages handled in one run.
MaxTtlCalls == 4

HalfHourMs == 30 * MinuteMs

\* The moment the remote system gains the custom object custWidget.
AddedAt == StartTime + HalfHourMs

\* One hour after it.
VisibleBy == AddedAt + 60 * MinuteMs

WidgetDescriptor == [resourceName |-> Some(custWidget), label |-> Some(<<"W", "i", "d", "g", "e", "t", "s">>)]

\* _results of GET /describe?limit=500 at time t
RemoteObjects(t) ==
    <<[resourceName |-> Some(projects), label |-> Some(<<"P", "r", "o", "j", "e", "c", "t", "s">>)]>>
    \o (IF t >= AddedAt THEN <<WidgetDescriptor>> ELSE << >>)

\* _results of GET /describe?filter=(isCustom = true) and (isSystem = false) at time t
RemoteCustomObjects(t) == IF t >= AddedAt THEN <<WidgetDescriptor>> ELSE << >>

\* One call of discoverAllObjects(forceRefresh).
DiscoverAll(forceRefresh, outcome) ==
    /\ used.requests < MaxTtlCalls
    /\ used' = [used EXCEPT !.requests = @ + 1]
    /\ \E r \in {discoverAllObjectsForce(metadataService, now, forceRefresh, outcome,
                                         RemoteObjects(now), RemoteCustomObjects(now))} :
          /\ metadataService' = r.md
          /\ last' = [op |-> "discoverAllObjects", forceRefresh |-> forceRefresh,
                      outcome |-> outcome, at |-> now, before |-> metadataService,
                      value |-> r.value, calls |-> r.calls]
    /\ UNCHANGED <<contexts, now, handler, client, toolRegistry, sessionManager, inflight,
                   heap>>

\* What the handling of one message does about the object types: the handler
\* discovers them when it has none, and asks the service for the custom objects
\* when it detects the target of the message.
HandleDiscovery(outcome) ==
    /\ used.requests < MaxTtlCalls
    /\ used' = [used EXCEPT !.requests = @ + 1]
    /\ \E d \in {discoverAllObjectsForce(metadataService, now, FALSE, outcome,
                                         RemoteObjects(now), RemoteCustomObjects(now))} :
       \E md1 \in {IF Len(handler.discoveredObjects) = 0 THEN d.md ELSE metadataService} :
       \E c \in {IF IsSome(md1.customObjectsCache)
                 THEN [md |-> md1, value |-> Get(md1.customObjectsCache), calls |-> << >>]
                 ELSE With(discoverAllObjectsForce(md1, now, FALSE, outcome, RemoteObjects(now),
                                                   RemoteCustomObjects(now)), LAMBDA g :
                          [md |-> g.md,
                           value |-> IF IsSome(g.md.customObjectsCache)
                                     THEN Get(g.md.customObjectsCache) ELSE << >>,
                           calls |-> g.calls])} :
          /\ handler' = IF Len(handler.discoveredObjects) = 0
                        THEN [handler EXCEPT !.discoveredObjects = d.value]
                        ELSE handler
          /\ metadataService' = c.md
          /\ last' = [op |-> "discoverObjects", outcome |-> outcome, at |-> now,
                      objects |-> handler'.discoveredObjects, customObjects |-> c.value,
                      calls |-> (IF Len(handler.discoveredObjects) = 0 THEN d.calls ELSE << >>)
                                \o c.calls,
                      afterLate |-> /\ last.op = "discoverObjects"
                                    /\ last.outcome = "ok"
                                    /\ last.at >= VisibleBy]
    /\ UNCHANGED <<contexts, now, client, toolRegistry, sessionManager, inflight, heap>>

NextTtl ==
    \/ \E forceRefresh \in BOOLEAN, outcome \in DiscoveryOutcomes :
          DiscoverAll(forceRefresh, outcome)
    \/ \E outcome \in DiscoveryOutcomes : HandleDiscovery(outcome)
    \/ Tick(HalfHourMs)

SpecTtl == Init /\ [][NextTtl]_vars

\* The cache the call found was younger than one hour.
YoungerThanHour ==
    /\ IsSome(last.before.discoveredObjects)
    /\ last.at - last.before.discoveredObjectsTimestamp < 3600000

\* The call of discoverAllObjects answered from the cache while it was younger
\* than one hour, and asked the remote system otherwise.
ServiceTtl ==
    last.op = "discoverAllObjects" =>
        /\ (~last.forceRefresh /\ YoungerThanHour) =>
               /\ last.calls = << >>
               /\ last.value = Get(last.before.discoveredObjects)
               /\ metadataService = last.before
        /\ (last.forceRefresh \/ ~YoungerThanHour) =>
               /\ Len(last.calls) > 0
               /\ last.calls[1] = DescribeAllCall
               /\ metadataService.discoveredObjectsTimestamp = last.at
               /\ last.outcome = "ok" => last.value = DiscoveredNames(RemoteObjects(last.at))

\* The object type is visible to the handling of the message: it is among the
\* object types of the handler or among the custom objects it got.
WidgetVisible ==
    \/ InSeq(last.objects, custWidget)
    \/ \E i \in 1..Len(last.customObjects) : last.customObjects[i].resourceName = custWidget

\* C28: Discovery TTL.  discoverAllObjects(false) returns the cached list without
\* a remote call while the cache is younger than one hour, and fetches from the
\* remote system when the cache is one hour old or older or forceRefresh is true;
\* so an object type added remotely is visible to message handling one hour and
\* one request later: to every message handled after a message that was itself
\* handled an hour or more after the addition, the remote system answering both.
C28_DiscoveryTtl ==
    /\ ServiceTtl
    /\ (last.op = "discoverObjects" /\ last.outcome = "ok" /\ last.afterLate) => WidgetVisible

\* The handler discovered the object types before the addition; two messages
\* handled an hour after it, one after the other, made no remote call and saw
\* neither the object type nor the custom object.
C28_Witness ==
    /\ last.op = "discoverObjects" /\ last.outcome = "ok" /\ last.afterLate
    /\ last.at >= VisibleBy
    /\ last.calls = << >>
    /\ ~WidgetVisible
    /\ handler.discoveredObjects = DiscoveredNames(RemoteObjects(StartTime))
    /\ metadataService.discoveredObjectsTimestamp = StartTime

\* What holds: the lifetime of the cache of the service.
C28_ServiceTtl == ServiceTtl

\* A call found a cache exactly one hour old and fetched the list again, with
\* the object type added since.
C28_WitnessRefetch ==
    /\ last.op = "discoverAllObjects"
    /\ ~last.forceRefresh
    /\ IsSome(last.before.discoveredObjects)
    /\ last.at - last.before.discoveredObjectsTimestamp = 3600000
    /\ last.outcome = "ok"
    /\ last.calls = <<DescribeAllCall, DescribeCustomCall>>
    /\ InSeq(last.value, custWidget)
    /\ ~InSeq(Get(last.before.discoveredObjects), custWidget)
----------------------------------------------------------------------------
\* The cached schema entries, against remote systems that describe anything.

\* Calls of getObjectMetadata, and attributes of a describe answer, in one run.
MaxEntryCalls == 2
MaxRawAttributes == 2

\* Attributes of a describe answer: named by name or by attributeName, with an
\* empty name or none, of an excluded data type or of none.
RawAttributes ==
    { RawAttribute(Some(<<"s", "t", "a", "t", "u", "s">>), None, Some(<<"S", "t", "a", "t", "u", "s">>), Some(<<"S", "T", "R", "I", "N", "G">>), FALSE, None),
      RawAttribute(None, Some(<<"s", "t", "a", "t", "u", "s">>), Some(<<"S", "t", "a", "t", "e">>), None, TRUE, Some(<<"S", "T", "A", "T", "E", "_", "L", "O", "O", "K", "U", "P">>)),
      RawAttribute(Some(<<"n", "o", "t", "e", "s">>), None, None, Some(<<"L", "A", "R", "G", "E", "_", "S", "T", "R", "I", "N", "G">>), FALSE, None),
      RawAttribute(Some(<<"p", "h", "o", "t", "o">>), None, None, Some(<<"B", "L", "O", "B">>), FALSE, None),
      RawAttribute(Some(<< >>), Some(<<"h", "i", "d", "d", "e", "n">>), Some(<<"H", "i", "d", "d", "e", "n">>), Some(<<"S", "T", "R", "I", "N", "G">>), FALSE, None),
      RawAttribute(None, None, Some(<<"O", "r", "p", "h", "a", "n">>), Some(<<"N", "U", "M", "B", "E", "R">>), FALSE, None),
      RawAttribute(Some(<<"o", "w", "n", "e", "r">>), None, None, Some(<<"l", "a", "r", "g", "e", "_", "s", "t", "r", "i", "n", "g">>), FALSE, None) }

\* Answers of GET /describe/{objectType}?includeAttributes=true
EntryResponses ==
    { [label |-> Some(<<"T", "h", "i", "n", "g", "s">>), pluralLabel |-> None, isCustom |-> FALSE, attributes |-> a] :
        a \in UNION {[1..n -> RawAttributes] : n \in 0..MaxRawAttributes} }

\* metadataService.getObjectMetadata(objectType), the remote call succeeding
FetchEntry(objectType, response) ==
    /\ used.requests < MaxEntryCalls
    /\ used' = [used EXCEPT !.requests = @ + 1]
    /\ \E r \in {serviceGetObjectMetadataFrom(metadataService, objectType, None, response)} :
          /\ metadataService' = r.md
          /\ last' = [op |-> "getObjectMetadata", objectType |-> objectType,
                      response |-> response, value |-> r.value, calls |-> r.calls]
    /\ UNCHANGED <<contexts, now, handler, client, toolRegistry, sessionManager, inflight,
                   heap>>

NextEntry == \E objectType \in ObjectTypes, response \in EntryResponses : FetchEntry(objectType, response)

SpecEntry == Init /\ [][NextEntry]_vars

\* The attributes of the cached entry of objectType, none when there is no entry.
CachedAttributes(objectType) ==
    IF IsSome(metadataService.metadataCache[objectType])
    THEN Get(metadataService.metadataCache[objectType]).attributes
    ELSE << >>

NoExcludedType(attributes) ==
    \A i \in 1..Len(attributes) :
        attributes[i].dataType \notin
            {<<"L", "A", "R", "G", "E", "_", "S", "T", "R", "I", "N", "G">>, <<"A", "T", "T", "A", "C", "H", "M", "E", "N", "T">>, <<"B", "I", "N", "A", "R", "Y">>, <<"B", "L", "O", "B">>}

NoEmptyName(attributes) == \A i \in 1..Len(attributes) : attributes[i].apiName # << >>

UniqueNames(attributes) ==
    \A i, j \in 1..Len(attributes) : i # j => attributes[i].apiName # attributes[j].apiName

\* C29: SchemaEntry invariant.  For every describe response, the cached entry
\* holds no attribute whose dataType is in the excluded set, no attribute with an
\* empty apiName, and no two attributes with the same apiName.
C29_SchemaEntryInvariant ==
    \A objectType \in ObjectTypes :
        /\ NoExcludedType(CachedAttributes(objectType))
        /\ NoEmptyName(CachedAttributes(objectType))
        /\ UniqueNames(CachedAttributes(objectType))

\* The remote system described an attribute by name and another by
\* attributeName, both "status": the cached entry holds the two.
C29_Witness ==
    /\ last.op = "getObjectMetadata"
    /\ Len(last.calls) = 1
    /\ Len(last.response.attributes) = 2
    /\ last.response.attributes[1].name = Some(<<"s", "t", "a", "t", "u", "s">>)
    /\ last.response.attributes[2].attributeName = Some(<<"s", "t", "a", "t", "u", "s">>)
    /\ Len(CachedAttributes(last.objectType)) = 2
    /\ CachedAttributes(last.objectType)[1].apiName = <<"s", "t", "a", "t", "u", "s">>
    /\ CachedAttributes(last.objectType)[2].apiName = <<"s", "t", "a", "t", "u", "s">>
    /\ CachedAttributes(last.objectType)[2].isLookup

\* What holds: no excluded data type and no empty apiName.
C29_NoExcludedNoEmpty ==
    \A objectType \in ObjectTypes :
        /\ NoExcludedType(CachedAttributes(objectType))
        /\ NoEmptyName(CachedAttributes(objectType))

\* An answer with a BLOB attribute and an attribute without a name: the entry
\* is cached without them.
C29_WitnessSkipped ==
    /\ last.op = "getObjectMetadata"
    /\ Len(last.calls) = 1
    /\ Len(last.response.attributes) = 2
    /\ last.response.attributes[1].dataType = Some(<<"B", "L", "O", "B">>)
    /\ last.response.attributes[2].name = None
    /\ last.response.attributes[2].attributeName = None
    /\ IsSome(metadataService.metadataCache[last.objectType])
    /\ CachedAttributes(last.objectType) = << >>
----------------------------------------------------------------------------
\* The groupable fields of schema entries.

\* Attributes of a schema entry in one call of getGroupableFields, and calls in
\* one run.
MaxAttributes == 3
MaxGroupableCalls == 1

Attribute(apiName, displayName, dataType, isReadOnly, isLookup) ==
    [apiName |-> apiName, displayName |-> displayName, dataType |-> dataType,
     isReadOnly |-> isReadOnly, isLookup |-> isLookup]

\* Attributes of a cached entry: on and off the priority list, internal,
\* read-only, lookups, and of data types in and out of the valid ones.
EntryAttributes ==
    { Attribute(<<"s", "t", "a", "t", "u", "s">>, <<"S", "t", "a", "t", "u", "s">>, <<"S", "T", "R", "I", "N", "G">>, FALSE, FALSE),
      Attribute(<<"o", "w", "n", "e", "r">>, <<"O", "w", "n", "e", "r">>, <<"S", "T", "R", "I", "N", "G">>, FALSE, TRUE),
      Attribute(<<"_", "i", "n", "t", "e", "r", "n", "a", "l", "I", "d">>, <<"I", "n", "t", "e", "r", "n", "a", "l", " ", "I", "D">>, <<"N", "U", "M", "B", "E", "R">>, FALSE, FALSE),
      Attribute(<<"_", "s", "e", "c", "r", "e", "t">>, <<"S", "e", "c", "r", "e", "t">>, <<"S", "T", "R", "I", "N", "G">>, FALSE, FALSE),
      Attribute(<<"c", "_", "s", "t", "a", "g", "e">>, <<"S", "t", "a", "g", "e">>, <<"S", "T", "R", "I", "N", "G">>, TRUE, TRUE),
      Attribute(<<"c", "r", "e", "a", "t", "e", "d">>, <<"C", "r", "e", "a", "t", "e", "d">>, <<"D", "A", "T", "E">>, FALSE, FALSE),
      Attribute(<<"s", "p", "o", "n", "s", "o", "r">>, <<"S", "p", "o", "n", "s", "o", "r">>, <<"D", "A", "T", "E">>, FALSE, TRUE),
      Attribute(<<"a", "c", "t", "i", "v", "e">>, <<"A", "c", "t", "i", "v", "e">>, <<"B", "O", "O", "L", "E", "A", "N">>, FALSE, FALSE),
      Attribute(<<"a", "u", "d", "i", "t">>, <<"A", "u", "d", "i", "t">>, <<"S", "T", "R", "I", "N", "G">>, TRUE, FALSE) }

\* metadataService.getGroupableFields(metadata)
GroupableFields(attributes) ==
    /\ used.requests < MaxGroupableCalls
    /\ used' = [used EXCEPT !.requests = @ + 1]
    /\ last' = [op |-> "getGroupableFields", attributes |-> attributes,
                value |-> getGroupableFields([attributes |-> attributes])]
    /\ UNCHANGED <<contexts, now, handler, metadataService, client, toolRegistry,
                   sessionManager, inflight, heap>>

NextGroupable ==
    \E n \in 0..MaxAttributes : \E attributes \in [1..n -> EntryAttributes] :
        GroupableFields(attributes)

SpecGroupable == Init /\ [][NextGroupable]_vars

CountIn(seq, x) == Cardinality({i \in 1..Len(seq) : seq[i] = x})

NotInternal(attr) == attr.apiName[1] # "_" \/ attr.apiName = <<"_", "i", "n", "t", "e", "r", "n", "a", "l", "I", "d">>

OfValidType(attr) ==
    attr.dataType \in {<<"S", "T", "R", "I", "N", "G">>, <<"L", "O", "O", "K", "U", "P">>, <<"B", "O", "O", "L", "E", "A", "N">>, <<"N", "U", "M", "B", "E", "R">>, <<"I", "N", "T", "E", "G", "E", "R">>}

OnPriorityList(attr) == InSeq(PRIORITY_FIELDS, attr.apiName)

\* value holds exactly the attributes Kept keeps, each as often as attributes does.
ExactlyThe(Kept(_), attributes, value) ==
    \A a \in EntryAttributes :
        CountIn(value, a) = IF Kept(a) THEN CountIn(attributes, a) ELSE 0

\* Priority attributes first, by their place on the list; among the others,
\* lookups before the rest.
InGroupableOrder(value) ==
    \A i, j \in 1..Len(value) :
        i < j =>
            /\ OnPriorityList(value[j]) => OnPriorityList(value[i])
            /\ (OnPriorityList(value[i]) /\ OnPriorityList(value[j])) =>
                   IndexOf(PRIORITY_FIELDS, value[i].apiName)
                       <= IndexOf(PRIORITY_FIELDS, value[j].apiName)
            /\ (~OnPriorityList(value[i]) /\ ~OnPriorityList(value[j])) =>
                   (value[j].isLookup => value[i].isLookup)

KeptAsStated(attr) ==
    NotInternal(attr) /\ (~attr.isReadOnly \/ attr.isLookup) /\ OfValidType(attr)

\* C30: getGroupableFields returns exactly the attributes that are not internal
\* (no leading underscore, except _internalId), are not read-only unless they are
\* lookups, and whose dataType is STRING, LOOKUP, BOOLEAN, NUMBER or INTEGER; in
\* the result the attributes of the priority list come first, in the order of the
\* list, and among the others the lookups precede the rest.
C30_GroupableFields ==
    last.op = "getGroupableFields" =>
        /\ ExactlyThe(KeptAsStated, last.attributes, last.value)
        /\ InGroupableOrder(last.value)

\* A lookup of data type DATE is returned, before a BOOLEAN attribute and after
\* the priority attribute.
C30_Witness ==
    /\ last.op = "getGroupableFields"
    /\ last.attributes = << Attribute(<<"a", "c", "t", "i", "v", "e">>, <<"A", "c", "t", "i", "v", "e">>, <<"B", "O", "O", "L", "E", "A", "N">>, FALSE, FALSE),
                            Attribute(<<"s", "p", "o", "n", "s", "o", "r">>, <<"S", "p", "o", "n", "s", "o", "r">>, <<"D", "A", "T", "E">>, FALSE, TRUE),
                            Attribute(<<"s", "t", "a", "t", "u", "s">>, <<"S", "t", "a", "t", "u", "s">>, <<"S", "T", "R", "I", "N", "G">>, FALSE, FALSE) >>
    /\ last.value = << Attribute(<<"s", "t", "a", "t", "u", "s">>, <<"S", "t", "a", "t", "u", "s">>, <<"S", "T", "R", "I", "N", "G">>, FALSE, FALSE),
                       Attribute(<<"s", "p", "o", "n", "s", "o", "r">>, <<"S", "p", "o", "n", "s", "o", "r">>, <<"D", "A", "T", "E">>, FALSE, TRUE),
                       Attribute(<<"a", "c", "t", "i", "v", "e">>, <<"A", "c", "t", "i", "v", "e">>, <<"B", "O", "O", "L", "E", "A", "N">>, FALSE, FALSE) >>

KeptByCode(attr) ==
    NotInternal(attr) /\ (~attr.isReadOnly \/ attr.isLookup)
    /\ (OfValidType(attr) \/ attr.isLookup)

\* What holds: the same with the lookups kept whatever their data type.
C30_GroupableFieldsWithLookups ==
    last.op = "getGroupableFields" =>
        /\ ExactlyThe(KeptByCode, last.attributes, last.value)
        /\ InGroupableOrder(last.value)

\* A read-only lookup, _internalId and a priority lookup, put in order, with the
\* internal and the read-only attributes never returned.
C30_WitnessOrder ==
    /\ last.op = "getGroupableFields"
    /\ last.attributes = << Attribute(<<"c", "_", "s", "t", "a", "g", "e">>, <<"S", "t", "a", "g", "e">>, <<"S", "T", "R", "I", "N", "G">>, TRUE, TRUE),
                            Attribute(<<"_", "i", "n", "t", "e", "r", "n", "a", "l", "I", "d">>, <<"I", "n", "t", "e", "r", "n", "a", "l", " ", "I", "D">>, <<"N", "U", "M", "B", "E", "R">>, FALSE, FALSE),
                            Attribute(<<"o", "w", "n", "e", "r">>, <<"O", "w", "n", "e", "r">>, <<"S", "T", "R", "I", "N", "G">>, FALSE, TRUE) >>
    /\ last.value = << Attribute(<<"o", "w", "n", "e", "r">>, <<"O", "w", "n", "e", "r">>, <<"S", "T", "R", "I", "N", "G">>, FALSE, TRUE),
                       Attribute(<<"c", "_", "s", "t", "a", "g", "e">>, <<"S", "t", "a", "g", "e">>, <<"S", "T", "R", "I", "N", "G">>, TRUE, TRUE),
                       Attribute(<<"_", "i", "n", "t", "e", "r", "n", "a", "l", "I", "d">>, <<"I", "n", "t", "e", "r", "n", "a", "l", " ", "I", "D">>, <<"N", "U", "M", "B", "E", "R">>, FALSE, FALSE) >>
----------------------------------------------------------------------------
\* The patterns of the follow-up classifier, matched as regular expressions.

\* Calls of detectFollowUpIntent in one run.
MaxClassifyCalls == 2

\* A node of a pattern: a literal text, \s*, \s+, \w+, an optional group (x)?,
\* or a group of alternatives (x|y); a pattern is a sequence of nodes.
Lit(s) == [k |-> "lit", s |-> s, r |-> << >>]
Ws0 == [k |-> "ws0", s |-> << >>, r |-> << >>]
Ws1 == [k |-> "ws1", s |-> << >>, r |-> << >>]
Word1 == [k |-> "word1", s |-> << >>, r |-> << >>]
Opt(pattern) == [k |-> "alt", s |-> << >>, r |-> <<pattern, << >> >>]
Alt(patterns) == [k |-> "alt", s |-> << >>, r |-> patterns]

\* \w and \s of a regular expression without the u flag
IsWordChar(c) == IsLetter(c) \/ IsDigit(c) \/ c = "_"
IsSpace(c) == c = " "

\* The letters of the Hebrew patterns, each one character of a text.
He == "U+05D4"
Resh == "U+05E8"
Alef == "U+05D0"
Lamed == "U+05DC"
Yod == "U+05D9"
Tav == "U+05EA"
Tsadi == "U+05E6"
Kaf == "U+05DB"
Mem == "U+05DE"
Pe == "U+05E4"
Tet == "U+05D8"
FinalMem == "U+05DD"
Nun == "U+05E0"
Qof == "U+05E7"

HasAt(text, i, s) == i + Len(s) - 1 <= Len(text) /\ SubSeq(text, i, i + Len(s) - 1) = s

\* The runs of characters of one class that start at position i: the positions
\* after a run of at least least characters.
RunEnds(text, i, least, InClass(_)) ==
    { j \in (i + least)..(Len(text) + 1) : \A n \in i..(j - 1) : InClass(text[n]) }

RECURSIVE EndsOfPattern(_, _, _)
RECURSIVE EndsOfNode(_, _, _)

\* The positions after a match of the node that starts at position i.
EndsOfNode(node, text, i) ==
    CASE node.k = "lit" -> IF HasAt(text, i, node.s) THEN {i + Len(node.s)} ELSE {}
      [] node.k = "ws0" -> RunEnds(text, i, 0, IsSpace)
      [] node.k = "ws1" -> RunEnds(text, i, 1, IsSpace)
      [] node.k = "word1" -> RunEnds(text, i, 1, IsWordChar)
      [] node.k = "alt" ->
            UNION { EndsOfPattern(node.r[n], text, {i}) : n \in 1..Len(node.r) }

\* The positions after a match of the pattern that starts at one of starts.
EndsOfPattern(pattern, text, starts) ==
    IF Len(pattern) = 0 \/ starts = {} THEN starts
    ELSE EndsOfPattern(Tail(pattern), text,
                       UNION { EndsOfNode(Head(pattern), text, i) : i \in starts })

\* text.match(pattern) is not null: the pattern matches somewhere in the text.
Matches(pattern, text) == EndsOfPattern(pattern, text, 1..(Len(text) + 1)) # {}

Ones == <<Lit(<<"o", "n", "e">>), Opt(<<Lit(<<"s">>)>>)>>

Patterns(type, patterns) == [type |-> type, patterns |-> patterns]

\* FOLLOW_UP_PATTERNS, in the order of Object.entries
FOLLOW_UP_PATTERNS ==
    << Patterns("showSelected",
         << <<Lit(<<"s", "h", "o", "w">>), Ws0, Opt(<<Lit(<<"m", "e">>), Ws0>>), Opt(<<Lit(<<"t", "h", "e">>), Ws0>>),
              Word1, Ws0>> \o Ones,
            <<Lit(<<"l", "i", "s", "t">>), Ws0, Opt(<<Lit(<<"t", "h", "e">>), Ws0>>), Word1, Ws0>> \o Ones,
            <<Lit(<<"g", "e", "t">>), Ws0, Opt(<<Lit(<<"m", "e">>), Ws0>>), Opt(<<Lit(<<"t", "h", "e">>), Ws0>>),
              Word1>>,
            <<Lit(<<"w", "h", "i", "c", "h">>), Ws0, Opt(Ones \o <<Ws0>>), Opt(<<Lit(<<"a", "r", "e">>), Ws0>>),
              Word1>>,
            <<Lit(<<He, Resh, Alef, He>>), Ws0, Opt(<<Lit(<<Lamed, Yod>>), Ws0>>),
              Opt(<<Lit(<<Alef, Tav>>), Ws0>>), Opt(<<Lit(<<He>>)>>), Word1>> >>),
       Patterns("export",
         << <<Lit(<<"e", "x", "p", "o", "r", "t">>), Ws0,
              Opt(<<Alt(<< <<Lit(<<"t", "h", "e", "m">>)>>, <<Lit(<<"t", "h", "i", "s">>)>>, <<Lit(<<"t", "h", "e", "s", "e">>)>>,
                           <<Lit(<<"i", "t">>)>> >>)>>),
              Opt(<<Ws0, Lit(<<"t", "o">>), Ws0, Lit(<<"e", "x", "c", "e", "l">>)>>)>>,
            <<Lit(<<"d", "o", "w", "n", "l", "o", "a", "d">>)>>,
            <<Lit(<<Yod, Yod, Tsadi, Alef>>)>> >>),
       Patterns("count",
         << <<Lit(<<"h", "o", "w">>), Ws0, Lit(<<"m", "a", "n", "y">>), Ws0,
              Opt(<<Alt(<< <<Lit(<<"t", "o", "t", "a", "l">>)>>,
                           <<Lit(<<"a", "r", "e">>), Ws0, Lit(<<"t", "h", "e", "r", "e">>)>> >>)>>)>>,
            <<Lit(<<"c", "o", "u", "n", "t">>), Ws0,
              Opt(<<Alt(<< <<Lit(<<"t", "h", "e", "m">>)>>, <<Lit(<<"a", "l", "l">>)>> >>)>>)>>,
            <<Lit(<<Kaf, Mem, He>>)>> >>),
       Patterns("details",
         << <<Lit(<<"t", "e", "l", "l">>), Ws0, Lit(<<"m", "e">>), Ws0, Lit(<<"m", "o", "r", "e">>)>>,
            <<Lit(<<"m", "o", "r", "e">>), Ws0, Lit(<<"d", "e", "t", "a", "i", "l">>), Opt(<<Lit(<<"s">>)>>)>>,
            <<Lit(<<"e", "x", "p", "a", "n", "d">>)>>,
            <<Lit(<<Pe, Resh, Tet, Yod, FinalMem>>)>> >>),
       Patterns("filter",
         << <<Lit(<<"f", "i", "l", "t", "e", "r">>), Ws0, Alt(<< <<Lit(<<"b", "y">>)>>, <<Lit(<<"w", "h", "e", "r", "e">>)>> >>)>>,
            <<Lit(<<"o", "n", "l", "y">>), Ws0, Opt(<<Lit(<<"s", "h", "o", "w">>), Ws0>>), Opt(<<Lit(<<"t", "h", "e">>), Ws0>>)>>,
            <<Lit(<<"w", "h", "e", "r", "e">>), Ws1, Word1, Ws0,
              Alt(<< <<Lit(<<"i", "s">>)>>, <<Lit(<<"=">>)>>, <<Lit(<<"e", "q", "u", "a", "l", "s">>)>> >>)>> >>),
       Patterns("link",
         << <<Lit(<<"l", "i", "n", "k">>), Ws0, Opt(<<Lit(<<"t", "o">>), Ws0>>),
              Opt(<<Alt(<< <<Lit(<<"t", "h", "i", "s">>)>>, <<Lit(<<"t", "h", "e", "m">>)>>, <<Lit(<<"i", "t">>)>> >>)>>)>>,
            <<Lit(<<"o", "p", "e", "n">>), Ws0, Opt(<<Lit(<<"i", "n">>), Ws0>>), Lit(<<"c", "l", "a", "r", "i", "t", "y">>)>>,
            <<Lit(<<"u", "r", "l">>)>>,
            <<Lit(<<Lamed, Yod, Nun, Qof>>)>> >>) >>

RECURSIVE FirstMatch_lastType(_, _)
\* The scan of the types from the last to the first.
FirstMatch_lastType(table, text) ==
    IF Len(table) = 0 THEN "none"
    ELSE IF \E n \in 1..Len(table[Len(table)].patterns) :
                Matches(table[Len(table)].patterns[n], text)
    THEN table[Len(table)].type
    ELSE FirstMatch_lastType(SubSeq(table, 1, Len(table) - 1), text)

RECURSIVE AnyMatches(_, _)
\* for (const pattern of patterns): whether the loop reaches a pattern that matches
AnyMatches(patterns, text) ==
    IF Len(patterns) = 0 THEN FALSE
    ELSE IF Matches(Head(patterns), text) THEN TRUE
    ELSE AnyMatches(Tail(patterns), text)

RECURSIVE FirstMatch(_, _)
\* for (const [intentType, patterns] of Object.entries(...)): the type at which
\* the loops return, "none" for the null after them
FirstMatch(table, text) ==
    IF Len(table) = 0 THEN "none"
    ELSE IF AnyMatches(Head(table).patterns, text) THEN Head(table).type
    ELSE FirstMatch(Tail(table), text)

\* detectFollowUpIntent(message).type
detectFollowUpType(message) == FirstMatch(FOLLOW_UP_PATTERNS, ToLower(message))

M_exportLink == <<"E", "x", "p", "o", "r", "t", " ", "t", "h", "e", " ", "L", "I", "N", "K">>
M_countFilter == <<"c", "o", "u", "n", "t", " ", "t", "h", "e", "m", ",", " ",
                   "f", "i", "l", "t", "e", "r", " ", "b", "y", " ", "s", "t",
                   "a", "t", "u", "s">>
M_onlyUrl == <<"o", "n", "l", "y", " ", "t", "h", "e", " ", "u", "r", "l">>
M_where == <<"w", "h", "e", "r", "e", " ", "s", "t", "a", "t", "u", "s",
             " ", "i", "s", " ", "a", "c", "t", "i", "v", "e">>
M_whereNot == <<"w", "h", "e", "r", "e", " ", "i", "s", " ", "i", "t">>
M_budget == <<"o", "p", "e", "n", " ", "t", "h", "e", " ", "b", "u", "d", "g", "e", "t">>
M_everyone == <<"S", "h", "o", "w", " ", "e", "v", "e", "r", "y", "o", "n", "e">>
M_listOnes == <<"l", "i", "s", "t", " ", "t", "h", "e", " ", "c", "o", "m",
                "p", "l", "e", "t", "e", "d", " ", "o", "n", "e", "s">>
M_openClarity == <<"o", "p", "e", "n", " ", "i", "n", " ", "c", "l", "a", "r", "i", "t", "y">>
M_moreDetails == <<"m", "o", "r", "e", " ", "d", "e", "t", "a", "i", "l", "s",
                   " ", "a", "n", "d", " ", "e", "x", "p", "a", "n", "d">>
M_kama == <<Kaf, Mem, He>>
M_hebrewShow == <<He, Resh, Alef, He, " ", Lamed, Yod>>

ClassifiedMessages ==
    Messages \cup { M_details, M_linkTo, M_exportLink, M_countFilter, M_onlyUrl, M_where,
                    M_whereNot, M_budget, M_everyone, M_listOnes, M_openClarity,
                    M_moreDetails, M_kama, M_hebrewShow }

\* The answers of the calls before the last one.
EarlierAnswers ==
    IF last.op = "detectFollowUpIntent"
    THEN last.earlier \cup {<<last.message, last.type>>}
    ELSE {}

\* A call of detectFollowUpIntent(message)
Classify(message) ==
    /\ used.requests < MaxClassifyCalls
    /\ used' = [used EXCEPT !.requests = @ + 1]
    /\ last' = [op |-> "detectFollowUpIntent", message |-> message,
                type |-> detectFollowUpType(message), earlier |-> EarlierAnswers,
                before |-> [contexts |-> contexts, client |-> client]]
    /\ UNCHANGED <<contexts, now, handler, metadataService, client, toolRegistry,
                   sessionManager, inflight, heap>>

NextClassify ==
    \/ \E message \in ClassifiedMessages : Classify(message)
    \/ \E s \in {"s1"} : AppendTurn(s)

SpecClassify == Init /\ [][NextClassify]_vars

Classified == last.op = "detectFollowUpIntent"

\* The types of the table, in its order.
IntentTypes == <<"showSelected", "export", "count", "details", "filter", "link">>

\* The places of the table, a type and a pattern of it, whose pattern matches.
MatchingPlaces(text) ==
    { place \in UNION { {<<i, j>> : j \in 1..Len(FOLLOW_UP_PATTERNS[i].patterns)}
                        : i \in 1..Len(FOLLOW_UP_PATTERNS) } :
        Matches(FOLLOW_UP_PATTERNS[place[1]].patterns[place[2]], text) }

Precedes(p, q) == p[1] < q[1] \/ (p[1] = q[1] /\ p[2] < q[2])

\* C31: detectFollowUpIntent returns the type of the first pattern that matches
\* the lower-cased message, the types scanned in the order showSelected, export,
\* count, details, filter, link and the patterns of a type in the order they are
\* listed; it returns no type if and only if no pattern matches; the same message
\* is given the same type in every call, and a call changes neither the
\* conversation store nor the calls made to the remote system.
C31_ClassifierOrdering ==
    Classified =>
        With(MatchingPlaces(ToLower(last.message)), LAMBDA places :
            /\ [i \in 1..Len(FOLLOW_UP_PATTERNS) |-> FOLLOW_UP_PATTERNS[i].type] = IntentTypes
            /\ (last.type = "none") <=> (places = {})
            /\ places # {} =>
                   \E first \in places :
                       /\ \A other \in places : ~Precedes(other, first)
                       /\ last.type = IntentTypes[first[1]]
            /\ \A answer \in last.earlier :
                   answer[1] = last.message => answer[2] = last.type
            /\ contexts = last.before.contexts
            /\ client = last.before.client)

\* A message that patterns of two types match is given the type that comes first
\* in the table, a second time as the first time.
C31_Witness ==
    /\ Classified
    /\ last.message = M_exportLink
    /\ last.type = "export"
    /\ <<M_exportLink, "export">> \in last.earlier
    /\ Matches(FOLLOW_UP_PATTERNS[6].patterns[1], ToLower(last.message))

\* A message that no pattern matches is given no type.
C31_WitnessNone ==
    /\ Classified
    /\ last.message = M_budget
    /\ last.type = "none"

\* The table of the handler's messages agrees with the patterns.
TabulatedAsMatched ==
    \A message \in Messages \cup {M_details, M_linkTo} :
        detectFollowUpIntent(message).type = detectFollowUpType(message)
----------------------------------------------------------------------------
\* The object type a message is about.

\* Calls of detectTargetObject and writes of the query memory in one run.
MaxTargetCalls == 2
MaxTargetWrites == 2

Descriptor(resourceName, label) == [resourceName |-> Some(resourceName), label |-> Some(label)]

\* What the remote system answers to the discovery of the custom objects.
CustomDescriptors ==
    { << Descriptor(custWidget, <<"W", "i", "d", "g", "e", "t", "s">>), Descriptor(<<"c", "u", "s", "t", "G", "a", "d", "g", "e", "t">>, <<"G", "a", "d", "g", "e", "t", "s">>) >>,
      << Descriptor(<<"c", "u", "s", "t", "G", "a", "d", "g", "e", "t">>, <<"G", "a", "d", "g", "e", "t", "s">>), Descriptor(custWidget, <<"W", "i", "d", "g", "e", "t", "s">>) >>,
      << >> }

T_both == <<"c", "o", "m", "p", "a", "r", "e", " ", "G", "a", "d", "g",
            "e", "t", "s", " ", "a", "n", "d", " ", "w", "i", "d", "g",
            "e", "t", "s">>
T_resource == <<"t", "a", "s", "k", "s", " ", "o", "f", " ", "c", "u", "s",
                "t", "W", "i", "d", "g", "e", "t">>
T_twoStandard == <<"r", "i", "s", "k", "s", " ", "a", "n", "d", " ", "t", "a", "s", "k", "s">>
T_singular == <<"o", "p", "e", "n", " ", "t", "h", "e", " ", "R", "i", "s",
                "k", " ", "r", "e", "g", "i", "s", "t", "e", "r">>
T_it == <<"d", "e", "s", "c", "r", "i", "b", "e", " ", "i", "t">>
T_nothing == <<"w", "h", "a", "t", " ", "i", "s", " ", "o", "v", "e", "r", "d", "u", "e">>

TargetMessages == {M_analyze, T_both, T_resource, T_twoStandard, T_singular, T_it, T_nothing}

\* discoverAllObjects when the remote system answers custom.
DiscoverCustom(outcome, custom) ==
    /\ ~IsSome(metadataService.customObjectsCache)
    /\ \E r \in {discoverAllObjectsFrom(metadataService, now, outcome,
                                        DescribeAllResponse, custom)} :
           /\ metadataService' = r.md
           /\ last' = [op |-> "discoverAllObjects", outcome |-> outcome]
    /\ UNCHANGED <<contexts, now, handler, client, toolRegistry, sessionManager, inflight,
                   heap, used>>

\* executeQuery, lines 1276-1285: a query of objectType succeeded.
RememberQuery(s, objectType) ==
    /\ used.storeOps < MaxTargetWrites
    /\ contexts' = updateLastQuery(contexts, s,
           QueryMemory(objectType, Capitalize(objectType), "query", None, Some(<< >>),
                       Some(0), None, None, None, ToISOString(now)))
    /\ used' = [used EXCEPT !.storeOps = @ + 1]
    /\ last' = [op |-> "updateLastQuery", session |-> s]
    /\ UNCHANGED <<now, handler, metadataService, client, toolRegistry, sessionManager,
                   inflight, heap>>

\* detectTargetObject(message, s) as getAIPlan calls it in a request, when the
\* context of the session exists (handleMessage, line 357).
DetectTarget(s, message, discovery) ==
    /\ used.requests < MaxTargetCalls
    /\ \E st \in {[contexts |-> getContextStore(contexts, s), handler |-> handler,
                   md |-> metadataService, calls |-> << >>, ai |-> 0]} :
       \E r \in {detectTargetObject(st, message, s, now, discovery)} :
           /\ contexts' = r.st.contexts
           /\ metadataService' = r.st.md
           /\ last' = [op |-> "detectTargetObject", session |-> s, message |-> message,
                       before |-> st.contexts,
                       customObjects |-> CustomObjects(st, now, discovery).value,
                       objectType |-> r.objectType, label |-> r.label]
    /\ used' = [used EXCEPT !.requests = @ + 1]
    /\ UNCHANGED <<now, handler, client, toolRegistry, sessionManager, inflight, heap>>

NextTarget ==
    \/ \E outcome \in {"ok", "firstCallFails"} : \E custom \in CustomDescriptors :
           DiscoverCustom(outcome, custom)
    \/ \E objectType \in {<<"i", "d", "e", "a", "s">>, custWidget} : RememberQuery("s1", objectType)
    \/ ClearContext("s1")
    \/ \E message \in TargetMessages : \E discovery \in {"ok", "firstCallFails"} :
           DetectTarget("s1", message, discovery)

SpecTarget == Init /\ [][NextTarget]_vars

Detected == last.op = "detectTargetObject"

\* The custom objects, and the standard object types, that the message names.
NamedCustom(message, customObjects) ==
    { i \in 1..Len(customObjects) :
        \/ Includes(ToLower(message), ToLower(customObjects[i].label))
        \/ Includes(ToLower(message), ToLower(customObjects[i].resourceName)) }

NamedStandard(message) ==
    { i \in 1..Len(StandardObjects) :
        \/ Includes(ToLower(message), StandardObjects[i])
        \/ Includes(ToLower(message), Singular(StandardObjects[i])) }

Least(S) == CHOOSE i \in S : \A j \in S : i <= j

LastQueryBefore == getContext(last.before, last.session).lastQuery

C32_WitnessCustomFirst ==
    /\ Detected
    /\ last.message = T_resource
    /\ last.objectType = custWidget

\* Of two standard object types the first of the list is returned.
C32_WitnessStandard ==
    /\ Detected
    /\ last.message = T_twoStandard
    /\ last.objectType = <<"t", "a", "s", "k", "s">>

\* A message that names no object is about the object of the last query,
C32_WitnessLastQuery ==
    /\ Detected
    /\ last.message = T_nothing
    /\ IsSome(LastQueryBefore)
    /\ last.objectType = <<"i", "d", "e", "a", "s">>

\* and about projects when there is none.
C32_WitnessDefault ==
    /\ Detected
    /\ last.message = T_it
    /\ ~IsSome(LastQueryBefore)
    /\ last.objectType = projects
----------------------------------------------------------------------------
\* Counts and lists.

\* The records of the longest list response.
MaxListed == 16

QueryLimit(n) ==
    PlanReply(<<"q", "u", "e", "r", "y">>, projects,
              Some(<<"/", "p", "r", "o", "j", "e", "c", "t", "s", "?", "f", "i",
                     "e", "l", "d", "s", "=", "n", "a", "m", "e", ",", "s", "t",
                     "a", "t", "u", "s", "&", "l", "i", "m", "i", "t", "=">> \o Numeral(n)), None, None)
QueryUnlimited == PlanReply(<<"q", "u", "e", "r", "y">>, projects, Some(<<"/", "p", "r", "o", "j", "e", "c", "t", "s">>), None, None)

\* The limits that plans ask for.
Limits == {1, 10, 12, 15, 100}

Numbered(i) == Record(200 + i, Some(<<"P">> \o Numeral(i)), None, RawNull)
ManyRecords == [i \in 1..MaxListed |-> Numbered(i)]

CountProfile ==
    Profile({"s1"}, {M_analyze}, {QueryLimit(n) : n \in Limits} \cup {QueryUnlimited},
            {NoData},
            {[threw |-> None, response |-> ListResponse(Some(<<Apollo, Nameless>>), Some(20))],
             [threw |-> None, response |-> ListResponse(Some(ManyRecords), Some(40))],
             [threw |-> None, response |-> ListResponse(Some(<<Apollo>>), None)],
             [threw |-> Some(ServerError), response |-> ListResponse(None, None)]},
            {}, {"ok"}, FALSE)

CountRequest == Request(CountProfile)
NextCount == CountRequest \/ ClearContext("s1")
SpecCount == Init /\ [][NextCount]_vars

\* A query was executed and succeeded.
QuerySucceeded ==
    /\ Requested
    /\ last.path = "plan"
    /\ IsSome(last.plan) /\ Get(last.plan).action = <<"q", "u", "e", "r", "y">>
    /\ IsSome(last.response) /\ Get(last.response).success

\* The limit that the endpoint of the plan asks for, 0 when it asks for none.
RequestedLimit ==
    With(Get(Get(last.plan).endpoint), LAMBDA endpoint :
        IF LimitAt(endpoint) = 0 THEN 0
        ELSE ParseInt(SubSeq(endpoint, LimitAt(endpoint) + 6,
                             DigitsEnd(endpoint, LimitAt(endpoint) + 6))))

BareCount == StartsWith(Get(last.response).reply, <<"U+D83D", "U+DCCA", " ", "*", "*", "F", "o", "u", "n", "d", " ">>)
RecordList == StartsWith(Get(last.response).reply, <<"U+2705", " ", "*", "*">>)

\* The records that a reply lists.
Listed(reply) ==
    Cardinality({i \in 1..Len(reply) : i + 3 <= Len(reply) /\ SubSeq(reply, i, i + 3) = <<"U+2022", " ", "*", "*">>})

MoreSuffix(n) == <<"\n", "_", ".", ".", ".", "a", "n", "d", " ">> \o Numeral(n) \o <<" ", "m", "o", "r", "e", "_">>

\* the reply ends with suffix
EndsWith(t, suffix) ==
    Len(t) >= Len(suffix) /\ SubSeq(t, Len(t) - Len(suffix) + 1, Len(t)) = suffix

\* The reply is a list of the first 15 records, with the count of the others.
ListOfFifteen ==
    With(last.o.list.response, LAMBDA response :
        /\ RecordList
        /\ ~BareCount
        /\ Listed(Get(last.response).reply) = Min(15, Len(ResultsOf(response)))
        /\ IF TotalCountOf(response) > 15
           THEN EndsWith(Get(last.response).reply, MoreSuffix(TotalCountOf(response) - 15))
           ELSE ~Includes(Get(last.response).reply, <<" ", "m", "o", "r", "e", "_">>))

\* C33: a query that succeeds is rendered as a bare count, without a list of
\* records, if and only if its endpoint asks for a limit of exactly 1; with any
\* other limit it is rendered as a list of at most 15 records, followed by
\* "...and N more" when the total count exceeds 15.
C33_CountRendering ==
    QuerySucceeded =>
        /\ BareCount <=> (RequestedLimit = 1)
        /\ RequestedLimit # 1 => ListOfFifteen

\* A query with limit=15 that found 16 records of 40 is answered with the count
\* alone.
C33_Witness ==
    /\ QuerySucceeded
    /\ RequestedLimit = 15
    /\ Len(ResultsOf(last.o.list.response)) = MaxListed
    /\ BareCount
    /\ Listed(Get(last.response).reply) = 0

\* What holds: the count alone is the reply exactly when the endpoint holds the
\* text limit=1 and not the text limit=10, that is for the limits 1 and 11 to 19
\* (and 110 and more whose digits begin so); every other query is rendered as a
\* list of the first 15 records.
C33_CountRenderingByText ==
    QuerySucceeded =>
        With(ClampLimit(Get(Get(last.plan).endpoint)), LAMBDA endpoint :
            /\ BareCount <=> (Includes(endpoint, <<"l", "i", "m", "i", "t", "=", "1">>) /\ ~Includes(endpoint, <<"l", "i", "m", "i", "t", "=", "1", "0">>))
            /\ ~BareCount => ListOfFifteen)

\* A query with limit=100 that found 16 records of 40 lists 15 and counts 25 more.
C33_WitnessList ==
    /\ QuerySucceeded
    /\ RequestedLimit = 100
    /\ Len(ResultsOf(last.o.list.response)) = MaxListed
    /\ Listed(Get(last.response).reply) = 15
    /\ EndsWith(Get(last.response).reply, MoreSuffix(25))

\* A query with limit=1 is answered with the count alone.
C33_WitnessOne ==
    /\ QuerySucceeded
    /\ RequestedLimit = 1
    /\ BareCount
----------------------------------------------------------------------------
\* The label of the last chart that a text selects.

\* Labels of a chart, and calls of findDrillDownMatch in one run.
MaxLabels == 3
MaxMatchCalls == 1

\* Labels that executeAnalyze gives to the values of a field.
ChartLabels ==
    {<<"A", "c", "t", "i", "v", "e">>, <<"I", "n", "a", "c", "t", "i", "v", "e">>, <<"A", "C", "T", "I", "V", "E">>, <<"A", "c", "t">>, <<"O", "n", " ", "H", "o", "l", "d">>, <<"(", "N", "o", " ", "v", "a", "l", "u", "e", ")">>}

\* The charts of at most MaxLabels labels, each label once.
Charts ==
    UNION { {labels \in [1..n -> ChartLabels] :
                \A i, j \in 1..n : labels[i] = labels[j] => i = j}
            : n \in 0..MaxLabels }

\* What the user asks for.
MatchTexts == {<<"a", "c", "t", "i", "v", "e">>, <<"a", "c", "t">>, <<"A", "C", "T">>, <<"t", "h", "e", " ", "h", "o", "l", "d">>, <<"p", "e", "n", "d", "i", "n", "g">>, << >>}

\* executeAnalyze, lines 1368-1385: the chart of a field is remembered.
RememberChart(s, labels) ==
    /\ ~ (IsSome(contexts[s]) /\ IsSome(Get(contexts[s]).lastQuery))
    /\ contexts' = updateLastQuery(contexts, s,
           QueryMemory(projects, <<"P", "r", "o", "j", "e", "c", "t", "s">>, "analyze", None, None, Some(Len(labels)),
                       Some(<<"s", "t", "a", "t", "u", "s">>), Some(<<"S", "t", "a", "t", "u", "s">>),
                       Some(<<[key |-> <<"s", "t", "a", "t", "u", "s">>,
                               value |-> [i \in 1..Len(labels) |->
                                             [label |-> labels[i], value |-> 1]]]>>),
                       ToISOString(now)))
    /\ last' = [op |-> "updateLastQuery", session |-> s]
    /\ UNCHANGED <<now, used, handler, metadataService, client, toolRegistry, sessionManager,
                   inflight, heap>>

\* contextService.findDrillDownMatch(s, userValue)
FindDrillDownMatch(s, userValue) ==
    /\ used.requests < MaxMatchCalls
    /\ contexts' = getContextStore(contexts, s)
    /\ used' = [used EXCEPT !.requests = @ + 1]
    /\ last' = [op |-> "findDrillDownMatch", session |-> s, userValue |-> userValue,
                value |-> findDrillDownMatch(contexts, s, userValue), before |-> contexts]
    /\ UNCHANGED <<now, handler, metadataService, client, toolRegistry, sessionManager,
                   inflight, heap>>

NextMatch ==
    \/ \E labels \in Charts : RememberChart("s1", labels)
    \/ \E objectType \in {projects} : RememberQuery("s1", objectType)
    \/ \E userValue \in MatchTexts : FindDrillDownMatch("s1", userValue)

SpecMatch == Init /\ [][NextMatch]_vars

MatchSought == last.op = "findDrillDownMatch"

\* The labels of the chart that the session held before the call.
LabelsOfChart ==
    With(LastQueryOf(last.before, last.session), LAMBDA q :
        IF IsSome(q) /\ IsSome(Get(q).chartData) /\ Truthy(Get(q).groupByField)
        THEN Labels(Get(Get(q).chartData)[1].value)
        ELSE << >>)

SameText(a, b) == ToLower(a) = ToLower(b)
PartOf(a, b) == Includes(ToLower(a), ToLower(b)) \/ Includes(ToLower(b), ToLower(a))

\* C34: findDrillDownMatch returns a label of the last chart or none.  If a label
\* equals the text without regard to case that label is returned, even when a
\* label before it in the chart matches in part; otherwise the first label of
\* the chart that holds the text or is held in it, without regard to case;
\* otherwise none.  It returns none when the session has no chart.
C34_DrillDownMatch ==
    MatchSought =>
        With(LabelsOfChart, LAMBDA labels :
        With({i \in 1..Len(labels) : SameText(labels[i], last.userValue)}, LAMBDA equal :
        With({i \in 1..Len(labels) : PartOf(labels[i], last.userValue)}, LAMBDA part :
            /\ IsSome(last.value) => InSeq(labels, Get(last.value))
            /\ equal # {} => last.value = Some(labels[Least(equal)])
            /\ (equal = {} /\ part # {}) => last.value = Some(labels[Least(part)])
            /\ part = {} => last.value = None
            /\ ~canDrillDown(last.before, last.session) => last.value = None)))

\* The second label equals the text and the first holds it: the second is
\* returned.
C34_Witness ==
    /\ MatchSought
    /\ LabelsOfChart = << <<"I", "n", "a", "c", "t", "i", "v", "e">>, <<"A", "c", "t", "i", "v", "e">> >>
    /\ last.userValue = <<"a", "c", "t", "i", "v", "e">>
    /\ last.value = Some(<<"A", "c", "t", "i", "v", "e">>)

\* No label equals the text: the first that matches in part is returned.
C34_WitnessPart ==
    /\ MatchSought
    /\ LabelsOfChart = << <<"O", "n", " ", "H", "o", "l", "d">>, <<"I", "n", "a", "c", "t", "i", "v", "e">>, <<"A", "c", "t", "i", "v", "e">> >>
    /\ last.userValue = <<"a", "c", "t">>
    /\ last.value = Some(<<"I", "n", "a", "c", "t", "i", "v", "e">>)

\* A session whose last query left no chart has no match.
C34_WitnessNoChart ==
    /\ MatchSought
    /\ IsSome(LastQueryOf(last.before, last.session))
    /\ ~canDrillDown(last.before, last.session)
    /\ last.value = None
----------------------------------------------------------------------------
\* The derived queries of the conversation store.

\* Calls of derived queries in one run.
MaxDerivedCalls == 2

\* lastQuery.action as it is printed
ActionText(action) ==
    CASE action = "query" -> <<"q", "u", "e", "r", "y">>
      [] action = "analyze" -> <<"a", "n", "a", "l", "y", "z", "e">>
      [] action = "drilldown" -> <<"d", "r", "i", "l", "l", "d", "o", "w", "n">>
      [] OTHER -> <<"m", "u", "t", "a", "t", "e">>

\* buildDrillDownRequest, lines 150-165, on the context getContext returns
buildDrillDownRequest(store, sessionId, selectedValue) ==
    With(getContext(store, sessionId).lastQuery, LAMBDA lastQuery :
        IF ~IsSome(lastQuery) \/ ~Truthy(Get(lastQuery).groupByField)
           \/ Get(lastQuery).objectType = << >>
        THEN None
        ELSE Some([fromField |-> Get(Get(lastQuery).groupByField),
                   selectedValue |-> selectedValue,
                   objectType |-> Get(lastQuery).objectType]))

\* getContextSummary, lines 214-229: the lines about the last query
QuerySummary(store, sessionId, lastQuery) ==
    <<<<"L", "a", "s", "t", " ", "q", "u", "e", "r", "y", ":", " ">> \o ActionText(lastQuery.action) \o <<" ", "o", "n", " ">> \o lastQuery.objectLabel>>
    \o (IF Truthy(lastQuery.groupByField)
        THEN <<<<"G", "r", "o", "u", "p", "e", "d", " ", "b", "y", ":", " ">> \o (IF Truthy(lastQuery.groupByDisplayName)
                                     THEN Get(lastQuery.groupByDisplayName)
                                     ELSE Get(lastQuery.groupByField))>>
             \o (IF Len(getDrillDownOptions(store, sessionId)) > 0
                 THEN <<<<"A", "v", "a", "i", "l", "a", "b", "l", "e", " ", "v", "a",
                          "l", "u", "e", "s", ":", " ">>
                        \o Join(SliceFirst(getDrillDownOptions(store, sessionId), 10), <<",", " ">>)>>
                 ELSE << >>)
        ELSE << >>)
    \o (IF IsSome(lastQuery.totalCount) /\ Get(lastQuery.totalCount) # 0
        THEN <<<<"T", "o", "t", "a", "l", " ", "r", "e", "c", "o", "r", "d", "s", ":", " ">> \o Numeral(Get(lastQuery.totalCount))>>
        ELSE << >>)

\* getContextSummary, on the context getContext returns
getContextSummary(store, sessionId) ==
    With(getContext(store, sessionId), LAMBDA context :
    With(SelectSeq(context.history, LAMBDA t : t.role = "user"), LAMBDA asked :
        Join((IF IsSome(context.lastQuery)
              THEN QuerySummary(store, sessionId, Get(context.lastQuery)) ELSE << >>)
             \o (IF IsSome(context.currentPage)
                 THEN <<<<"C", "u", "r", "r", "e", "n", "t", " ", "p", "a", "g", "e", ":", " ">> \o Get(context.currentPage).objectType
                        \o (IF Truthy(Get(context.currentPage).recordName)
                            THEN <<" ", "-", " ">> \o Get(Get(context.currentPage).recordName)
                            ELSE << >>)>>
                 ELSE << >>)
             \o (IF Len(asked) > 0
                 THEN <<<<"R", "e", "c", "e", "n", "t", " ", "q", "u", "e", "s", "t",
                          "i", "o", "n", "s", ":", " ">>
                        \o Join([i \in 1..Len(SliceLast(asked, 3)) |->
                                    SliceLast(asked, 3)[i].message], <<" ", "|", " ">>)>>
                 ELSE << >>),
             <<"\n">>)))

\* A derived query of session s that returns value: the context it reads is the
\* one getContext(s) returns.
DerivedQuery(s, query, value) ==
    /\ used.requests < MaxDerivedCalls
    /\ contexts' = getContextStore(contexts, s)
    /\ used' = [used EXCEPT !.requests = @ + 1]
    /\ last' = [op |-> query, session |-> s, value |-> value, before |-> contexts]
    /\ UNCHANGED <<now, handler, metadataService, client, toolRegistry, sessionManager,
                   inflight, heap>>

CanDrillDown(s) == DerivedQuery(s, "canDrillDown", canDrillDown(contexts, s))
GetDrillDownOptions(s) ==
    DerivedQuery(s, "getDrillDownOptions", getDrillDownOptions(contexts, s))
BuildDrillDownRequest(s, selectedValue) ==
    DerivedQuery(s, "buildDrillDownRequest", buildDrillDownRequest(contexts, s, selectedValue))
GetContextSummary(s) == DerivedQuery(s, "getContextSummary", getContextSummary(contexts, s))

NextDerived ==
    \/ \E s \in Sessions : CanDrillDown(s)
    \/ \E s \in Sessions : GetDrillDownOptions(s)
    \/ \E s \in Sessions : FindDrillDownMatch(s, <<"a", "c", "t", "i", "v", "e">>)
    \/ \E s \in Sessions : BuildDrillDownRequest(s, <<"A", "c", "t", "i", "v", "e">>)
    \/ \E s \in Sessions : GetContextSummary(s)
    \/ \E s \in Sessions : RememberChart(s, << <<"I", "n", "a", "c", "t", "i", "v", "e">>, <<"A", "c", "t", "i", "v", "e">> >>)
    \/ \E s \in Sessions : AppendTurn(s)
    \/ \E s \in Sessions : ClearContext(s)

SpecDerived == Init /\ [][NextDerived]_vars

DerivedQueries ==
    {"canDrillDown", "getDrillDownOptions", "findDrillDownMatch", "buildDrillDownRequest",
     "getContextSummary"}

DerivedQueried == last.op \in DerivedQueries

\* C35: canDrillDown, getDrillDownOptions, findDrillDownMatch,
\* buildDrillDownRequest and getContextSummary leave the conversation store as it
\* was: they add no entry for a session id the store does not know and change
\* the state of no session.
C35_DerivedQueriesReadOnly == DerivedQueried => contexts = last.before

\* canDrillDown of a session the store does not know answers false and leaves an
\* entry for the session.
C35_Witness ==
    /\ last.op = "canDrillDown"
    /\ ~IsSome(last.before[last.session])
    /\ last.value = FALSE
    /\ contexts[last.session] = Some(createNewContext(last.session))

\* What holds: a derived query changes the state of no session that the store
\* knows, and the only entry it adds is an empty one for the session it asks about.
C35_DerivedQueriesKeepStates ==
    DerivedQueried =>
        \A s \in Sessions :
            IF IsSome(last.before[s]) THEN contexts[s] = last.before[s]
            ELSE IF s = last.session THEN contexts[s] = Some(createNewContext(s))
            ELSE contexts[s] = None

\* The summary of a session with a chart and a question, which the call leaves as
\* they were.
C35_WitnessSummary ==
    /\ last.op = "getContextSummary"
    /\ IsSome(last.before[last.session])
    /\ Includes(last.value, <<"A", "v", "a", "i", "l", "a", "b", "l", "e", " ", "v", "a",
                              "l", "u", "e", "s", ":", " ", "I", "n", "a", "c", "t", "i",
                              "v", "e", ",", " ", "A", "c", "t", "i", "v", "e">>)
    /\ Includes(last.value, <<"R", "e", "c", "e", "n", "t", " ", "q", "u", "e", "s", "t",
                              "i", "o", "n", "s", ":", " ", "1">>)
    /\ contexts = last.before
----------------------------------------------------------------------------
\* The sweep and the sessions written to a short time before it.

\* Writes to the store in one run.
MaxFreshWrites == 2

StoreWrites == {"getContext", "addToHistory", "updateLastQuery", "setCurrentPage",
                "updatePreferences"}

\* The store after a write of session s at time t.
Written(store, s, write, t) ==
    CASE write = "getContext" -> getContextStore(store, s)
      [] write = "addToHistory" -> addToHistory(store, s, Turn(ToISOString(t), "user", <<"h", "i">>))
      [] write = "updateLastQuery" -> updateLastQuery(store, s, SampleQuery(t))
      [] write = "setCurrentPage" -> setCurrentPage(store, s, SamplePage)
      [] write = "updatePreferences" ->
            updatePreferences(store, s, [preferredChartType |-> Some("pie"),
                                         language |-> None, detailLevel |-> None])

\* A write of session s; the time of the last write of each session is kept in
\* inflight.stamps.  getContext writes only when it creates the session.
Write(s, write) ==
    /\ used.storeOps < MaxFreshWrites
    /\ write = "getContext" => ~IsSome(contexts[s])
    /\ contexts' = Written(contexts, s, write, now)
    /\ inflight' = [inflight EXCEPT !.stamps[s] = <<now>>]
    /\ used' = [used EXCEPT !.storeOps = @ + 1]
    /\ last' = [op |-> write, session |-> s, before |-> contexts]
    /\ UNCHANGED <<now, handler, metadataService, client, toolRegistry, sessionManager, heap>>

NextFresh ==
    \/ \E s \in Sessions, write \in StoreWrites : Write(s, write)
    \/ \E d \in TickSteps : Tick(d)
    \/ SweepExpired

SpecFresh == Init /\ [][NextFresh]_vars

Swept == last.op = "cleanupExpiredContexts"

\* Session s was created or written to less than 30 minutes before the sweep.
FreshAtSweep(s) ==
    /\ IsSome(last.before[s])
    /\ Len(inflight.stamps[s]) > 0
    /\ last.at - inflight.stamps[s][1] < CONTEXT_EXPIRY_MS

\* C36: cleanupExpiredContexts removes no session that was created, or written
\* to by updateLastQuery, setCurrentPage or updatePreferences, less than 30
\* minutes before the sweep, a session whose history is still empty included.
C36_SweepKeepsFresh ==
    Swept => \A s \in Sessions : FreshAtSweep(s) => contexts[s] = last.before[s]

\* A session that updateLastQuery created one minute before the sweep, and that
\* has no turn yet, is removed.
C36_Witness ==
    /\ Swept
    /\ \E s \in Sessions :
          /\ FreshAtSweep(s)
          /\ last.at - inflight.stamps[s][1] = MinuteMs
          /\ IsSome(Get(last.before[s]).lastQuery)
          /\ GetTime(Get(Get(last.before[s]).lastQuery).timestamp) = last.at - MinuteMs
          /\ Len(Get(last.before[s]).history) = 0
          /\ contexts[s] = None

\* What holds: the sweep removes exactly the sessions whose history is empty or
\* whose last turn is more than 30 minutes old, whatever else was written to them
\* and whenever.
C36_SweepByLastTurn ==
    Swept =>
        \A s \in Sessions :
            IsSome(last.before[s]) =>
                IF \/ Len(Get(last.before[s]).history) = 0
                   \/ AgeOfLastEntry(Get(last.before[s]), last.at) > CONTEXT_EXPIRY_MS
                THEN contexts[s] = None
                ELSE contexts[s] = last.before[s]

\* A session with a turn 31 minutes old and a page set one minute before the
\* sweep is removed as well.
C36_WitnessStaleTurn ==
    /\ Swept
    /\ \E s \in Sessions :
          /\ FreshAtSweep(s)
          /\ Len(Get(last.before[s]).history) = 1
          /\ AgeOfLastEntry(Get(last.before[s]), last.at) > CONTEXT_EXPIRY_MS
          /\ IsSome(Get(last.before[s]).currentPage)
          /\ contexts[s] = None

\* A session with a turn appended 29 minutes before the sweep is kept.
C36_WitnessKept ==
    /\ Swept
    /\ \E s \in Sessions :
          /\ FreshAtSweep(s)
          /\ Len(Get(last.before[s]).history) > 0
          /\ AgeOfLastEntry(Get(last.before[s]), last.at) = 29 * MinuteMs
          /\ contexts[s] = last.before[s]
----------------------------------------------------------------------------
\* When a drill-down is available, over the requests of a session.

AvailableProfile ==
    Profile({"s1"}, {M_analyze, M_drill}, {AnalyzeStatus, QueryPriority},
            {Data(<<Completed, Active>>), Data(<< >>),
             [threw |-> Some(ServerError), results |-> None]},
            {ListFound, [threw |-> Some(ServerError), response |-> ListResponse(None, None)]},
            {}, {"ok"}, FALSE)

AvailableRequest == Request(AvailableProfile)

NextAvailable ==
    \/ AvailableRequest
    \/ RememberChart("s1", << <<"C", "o", "m", "p", "l", "e", "t", "e", "d">>, <<"A", "c", "t", "i", "v", "e">> >>)
    \/ ClearContext("s1")
    \/ \E d \in {29 * MinuteMs} : Tick(d)
    \/ SweepExpired

SpecAvailable == Init /\ [][NextAvailable]_vars

\* The last write of the query memory of s was an analysis.
LastWriteWasAnalyze(s) ==
    IsSome(LastQueryOf(contexts, s)) /\ Get(LastQueryOf(contexts, s)).action = "analyze"

\* The last request was an analysis that succeeded,
AnalyzeSucceeded ==
    /\ Requested /\ last.path = "plan"
    /\ IsSome(last.plan) /\ Get(last.plan).action = <<"a", "n", "a", "l", "y", "z", "e">>
    /\ IsSome(last.response) /\ Get(last.response).success

\* a drill-down that was executed and succeeded,
DrillDownSucceeded ==
    /\ Requested /\ Len(DrillDownCalls) > 0
    /\ IsSome(last.response) /\ Get(last.response).success

\* a drill-down that was executed.
DrillDownExecuted == Requested /\ Len(DrillDownCalls) > 0

AvailabilityOfState ==
    /\ \A s \in AvailableProfile.sessions : canDrillDown(contexts, s) <=> LastWriteWasAnalyze(s)
    /\ (QuerySucceeded \/ DrillDownSucceeded) =>
           /\ ~canDrillDown(contexts, last.session)
           /\ Get(LastQueryOf(contexts, last.session)).chartData = None
           /\ Get(LastQueryOf(contexts, last.session)).groupByField = None
    /\ AnalyzeSucceeded => canDrillDown(contexts, last.session)
    /\ DrillDownExecuted =>
           /\ canDrillDown(last.before, last.session)
           /\ Get(LastQueryOf(last.before, last.session)).action = "analyze"

AvailabilityOfStep ==
    \A s \in AvailableProfile.sessions :
        (~canDrillDown(contexts, s) /\ canDrillDown(contexts', s)) =>
            \/ AnalyzeSucceeded' /\ last'.session = s
            \/ last'.op = "updateLastQuery"

\* C37: canDrillDown(s) is true exactly when the last write of the query memory
\* of s was an analysis.  After a query or a drill-down that succeeded it is
\* false, chartData and groupByField being cleared together, and it stays false
\* until the next analysis that succeeds, so that a drill-down asked for directly
\* after a drill-down is never executed against the old chart.
C37_DrillDownAvailability == [](AvailabilityOfState) /\ [][AvailabilityOfStep]_vars

\* After a drill-down that succeeded the same follow-up is asked again: no
\* drill-down is executed, the message goes to the planner, and no drill-down is
\* available after it either.
C37_Witness ==
    /\ Requested
    /\ last.message = M_drill
    /\ IsSome(LastQueryOf(last.before, last.session))
    /\ Get(LastQueryOf(last.before, last.session)).action = "drilldown"
    /\ ~DrillDownExecuted
    /\ last.ai = 1
    /\ QuerySucceeded
    /\ ~canDrillDown(contexts, last.session)

\* An analysis after a drill-down makes the drill-down available again.
C37_WitnessAgain ==
    /\ AnalyzeSucceeded
    /\ IsSome(LastQueryOf(last.before, last.session))
    /\ Get(LastQueryOf(last.before, last.session)).action = "drilldown"
    /\ canDrillDown(contexts, last.session)
----------------------------------------------------------------------------
\* Tool availability: what canUseTool answers while a session is created and
\* ended, time passes and the capabilities are validated; the other session id is
\* never registered.

\* Bodies of POST /api/session: a preset without delete, a preset with delete, and
\* an explicit permission list that has delete but not read.
ToolConfigs(s) ==
    { SessionConfig(s, None, None, Some("editor"), None, None, None, None, Some(30)),
      SessionConfig(s, None, None, Some("admin"), None, None, None, None, Some(30)),
      SessionConfig(s, None, None, None, Some(<<"write", "delete">>), None, None, None,
                    Some(60)) }

\* The tool ids a caller asks about; the last one names no tool.
ToolsAsked == {"list_records", "create_chart", "delete_record", "drop_table"}

\* validateCapabilities as app.listen and the refresh timer call it: at start, and
\* later when the capabilities are older than 10 minutes.
ValidateCapabilities(probes) ==
    /\ needsRefresh(toolRegistry, now)
    /\ toolRegistry' = validateCapabilities(toolRegistry, now, probes)
    /\ last' = [op |-> "validateCapabilities", probes |-> probes, at |-> now,
                before |-> toolRegistry]
    /\ UNCHANGED <<contexts, now, handler, metadataService, client, sessionManager, inflight,
                   heap, used>>

\* canUseTool(sessionId, toolId): the lookup removes an expired session.
CanUseTool(s, toolId) ==
    /\ SessionCall
    /\ toolRegistry' = getAvailableTools(toolRegistry, s, now).reg
    /\ last' = [op |-> "canUseTool", session |-> s, tool |-> toolId, at |-> now,
                before |-> toolRegistry,
                value |-> canUseTool(toolRegistry, s, toolId, now)]
    /\ UNCHANGED sessionManager

NextTools ==
    \/ \E config \in ToolConfigs("s1") : CreateSession(config)
    \/ EndSession("s1")
    \/ \E s \in Sessions, toolId \in ToolsAsked : CanUseTool(s, toolId)
    \/ \E probes \in Probes : ValidateCapabilities(probes)
    \/ \E d \in TickSteps : Tick(d)

SpecTools == Init /\ [][NextTools]_vars

\* The permissions in force for a session at time t: those of its stored entry
\* while it has not expired, and read alone otherwise.
PermissionsInForce(reg, s, t) ==
    IF /\ IsSome(reg.sessionPermissions[s])
       /\ ~(/\ IsSome(Get(reg.sessionPermissions[s]).expiresAt)
            /\ t > Get(Get(reg.sessionPermissions[s]).expiresAt))
    THEN Get(reg.sessionPermissions[s]).permissions
    ELSE <<"read">>

\* The tools of the given id: one, or none for an id that names no tool.
ToolsNamed(toolId) == { i \in 1..Len(ALL_TOOLS) : ALL_TOOLS[i].id = toolId }

\* What the claim requires of a tool that is available.
Entitled(reg, s, toolId, t) ==
    \E i \in ToolsNamed(toolId) :
        /\ \A k \in 1..Len(ALL_TOOLS[i].requiredPermissions) :
               InSeq(PermissionsInForce(reg, s, t), ALL_TOOLS[i].requiredPermissions[k])
        /\ reg.clarityCapabilities[ALL_TOOLS[i].capability]

AllToolIds == { ALL_TOOLS[i].id : i \in 1..Len(ALL_TOOLS) } \cup ToolsAsked

\* The ids of the tools getAvailableTools lists for a session; canUseTool(s, t)
\* is the membership of t in them.
AvailableIds(reg, s, t) == ToolIds(getAvailableTools(reg, s, t).tools)

\* Some tool is available to some session.
SomeToolAvailable(reg, t) == \E s \in Sessions : Len(AvailableIds(reg, s, t)) > 0

AvailableOnlyIfEntitled ==
    /\ \A s \in Sessions :
           With(AvailableIds(toolRegistry, s, now), LAMBDA ids :
               \A toolId \in AllToolIds :
                   InSeq(ids, toolId) =>
                       /\ Entitled(toolRegistry, s, toolId, now)
                       /\ toolId = "delete_record" =>
                              InSeq(PermissionsInForce(toolRegistry, s, now), "delete"))
    /\ last.op = "canUseTool" /\ last.value =>
           Entitled(last.before, last.session, last.tool, last.at)

\* Tools become available only by a validation whose read probe succeeded.
AvailableOnlyByValidation ==
    ~SomeToolAvailable(toolRegistry, now) /\ SomeToolAvailable(toolRegistry', now') =>
        /\ last'.op = "validateCapabilities"
        /\ last'.probes.projects

NoToolAtStart == ~SomeToolAvailable(toolRegistry, now)

\* C38: Tool availability.  In every state canUseTool(s, t) is true only if the
\* permissions in force for s (those of the live session, or read alone when s is
\* unknown or expired) include every required permission of tool t and the
\* capability flag of t holds; no tool is available to any session before the
\* first validation of the capabilities that succeeded, and delete_record is never
\* available to a session without the delete permission.
C38_ToolAvailability ==
    /\ NoToolAtStart
    /\ [](AvailableOnlyIfEntitled)
    /\ [][AvailableOnlyByValidation]_vars

\* After a validation that succeeded, a live session created with write and delete
\* but not read was answered that it may use delete_record, and it may not use
\* list_records.
C38_Witness ==
    /\ last.op = "canUseTool"
    /\ last.tool = "delete_record"
    /\ last.value
    /\ PermissionsInForce(last.before, last.session, last.at) = <<"write", "delete">>
    /\ ~canUseTool(toolRegistry, last.session, "list_records", now)

\* An admin session that has expired was asked about delete_record: read alone is
\* in force, the answer is no, and list_records is still available.
C38_WitnessExpired ==
    /\ last.op = "canUseTool"
    /\ last.tool = "delete_record"
    /\ ~last.value
    /\ IsSome(last.before.sessionPermissions[last.session])
    /\ InSeq(Get(last.before.sessionPermissions[last.session]).permissions, "delete")
    /\ PermissionsInForce(last.before, last.session, last.at) = <<"read">>
    /\ last.before.clarityCapabilities.canDelete
    /\ canUseTool(toolRegistry, last.session, "list_records", now)

\* A live admin session was asked before any validation succeeded: no tool.
C38_WitnessUnvalidated ==
    /\ last.op = "canUseTool"
    /\ ~last.value
    /\ last.tool = "list_records"
    /\ InSeq(PermissionsInForce(last.before, last.session, last.at), "admin")
    /\ ~last.before.clarityCapabilities.canRead
----------------------------------------------------------------------------
\* The lifetime of a permission session: created, looked up, refreshed, ended,
\* and expiring as time passes.

\* Bodies of POST /api/session: a session of one minute and one of thirty.
LifetimeConfigs(s) ==
    { SessionConfig(s, None, None, Some("editor"), None, None, None, None, Some(1)),
      SessionConfig(s, Some(<<"u", "1">>), Some(<<"d", "a", "n", "a">>), Some("admin"), None, None, None,
                    Some(<<"t", "e", "a", "m">>), Some(30)) }

\* The tools GET /api/tools/:toolId/check is asked about.
ToolsValidated == {"list_records", "delete_record"}

\* GET /api/tools/:toolId/check: validateToolAccess(sessionId, toolId); its lookup of
\* the session removes an expired entry.
ValidateToolAccess(s, toolId) ==
    /\ SessionCall
    /\ toolRegistry' = getSessionPermissions(toolRegistry, s, now).reg
    /\ last' = [op |-> "validateToolAccess", session |-> s, tool |-> toolId, at |-> now,
                before |-> toolRegistry,
                result |-> validateToolAccess(toolRegistry, s, toolId, now)]
    /\ UNCHANGED sessionManager

NextLifetime ==
    \/ \E config \in LifetimeConfigs("s1") : CreateSession(config)
    \/ \E s \in Sessions : GetSession(s)
    \/ \E s \in Sessions, toolId \in ToolsValidated : ValidateToolAccess(s, toolId)
    \/ EndSession("s1")
    \/ RefreshSession("s1", 30)
    \/ \E probes \in Probes : ValidateCapabilities(probes)
    \/ \E d \in TickSteps : Tick(d)

SpecLifetime == Init /\ [][NextLifetime]_vars

\* The registry holds an entry for s whose expiresAt is before t.
PastExpiry(reg, s, t) ==
    /\ IsSome(reg.sessionPermissions[s])
    /\ IsSome(Get(reg.sessionPermissions[s]).expiresAt)
    /\ t > Get(Get(reg.sessionPermissions[s]).expiresAt)

\* s was never created, was ended, was removed, or is past its expiry.
Lapsed(reg, s, t) == reg.sessionPermissions[s] = None \/ PastExpiry(reg, s, t)

NotFoundOrExpired == [allowed |-> FALSE, reason |-> "Session not found or expired"]

\* The operations that look a session up.
Lookups == {"getSession", "validateToolAccess", "refreshSession"}

\* What a lapsed session is answered, and what the last operation left.
LapsedIsRefused ==
    /\ \A s \in Sessions :
           Lapsed(toolRegistry, s, now) =>
               /\ getSession(toolRegistry, sessionManager, s, now).info = None
               /\ \A i \in 1..Len(ALL_TOOLS) :
                      validateToolAccess(toolRegistry, s, ALL_TOOLS[i].id, now)
                          = NotFoundOrExpired
    /\ last.op = "endSession" => Lapsed(toolRegistry, last.session, now)
    /\ last.op = "getSession" /\ Lapsed(last.before, last.session, last.at) =>
           last.info = None
    /\ last.op = "validateToolAccess" /\ Lapsed(last.before, last.session, last.at) =>
           last.result = NotFoundOrExpired
    /\ last.op \in Lookups /\ PastExpiry(last.before, last.session, last.at) =>
           toolRegistry.sessionPermissions[last.session] = None

\* A lapsed session is live again only by createSession for its id.
LapsedUntilCreated ==
    \A s \in Sessions :
        Lapsed(toolRegistry, s, now) /\ ~Lapsed(toolRegistry', s, now') =>
            /\ last'.op = "createSession"
            /\ last'.session = s

\* C39: Permission-session lifetime.  Once the current time is past a session's
\* expiresAt, or after endSession, getSession returns null and validateToolAccess
\* returns allowed = false with the reason "Session not found or expired" for every
\* tool, and this stays so until createSession is called again for that id; the
\* first lookup after the expiry removes the session entry.
C39_SessionLifetime == [](LapsedIsRefused) /\ [][LapsedUntilCreated]_vars

\* An admin session past its expiry, with the capabilities validated, was asked
\* about list_records: refused as not found or expired, and its entry is gone.
C39_Witness ==
    /\ last.op = "validateToolAccess"
    /\ PastExpiry(last.before, last.session, last.at)
    /\ last.before.clarityCapabilities.canRead
    /\ last.tool = "list_records"
    /\ last.result = NotFoundOrExpired
    /\ toolRegistry.sessionPermissions[last.session] = None

\* A session exactly at its expiresAt is still live: validateToolAccess allows.
C39_WitnessAtExpiry ==
    /\ last.op = "validateToolAccess"
    /\ IsSome(last.before.sessionPermissions[last.session])
    /\ Get(last.before.sessionPermissions[last.session]).expiresAt = Some(last.at)
    /\ last.result.allowed

\* A refresh of a session past its expiry returns null and leaves it lapsed.
C39_WitnessRefresh ==
    /\ last.op = "refreshSession"
    /\ PastExpiry(last.before, last.session, last.at)
    /\ last.info = None
    /\ Lapsed(toolRegistry, last.session, now)

\* An ended session that was live is looked up: null.
C39_WitnessEnded ==
    /\ last.op = "endSession"
    /\ ~Lapsed(last.before, last.session, last.at)
    /\ getSession(toolRegistry, sessionManager, last.session, now).info = None
----------------------------------------------------------------------------
\* Object access: what validateObjectAccess answers for live, ended, expired and
\* unknown sessions.

\* Bodies of POST /api/session: one object type denied; one type both allowed and
\* denied; an empty list of allowed types; one type allowed.
ObjectConfigs(s) ==
    { SessionConfig(s, None, None, Some("editor"), None, None, Some(<<custWidget>>), None,
                    Some(30)),
      SessionConfig(s, None, None, Some("readonly"), None, Some(<<projects, custWidget>>),
                    Some(<<custWidget>>), None, Some(30)),
      SessionConfig(s, None, None, Some("readonly"), None, Some(<< >>), None, None, Some(1)),
      SessionConfig(s, None, None, Some("admin"), None, Some(<<projects>>), None, None,
                    Some(1)) }

\* validateObjectAccess(sessionId, objectType); its lookup of the session removes
\* an expired entry.
ValidateObjectAccess(s, objectType) ==
    /\ SessionCall
    /\ toolRegistry' = getSessionPermissions(toolRegistry, s, now).reg
    /\ last' = [op |-> "validateObjectAccess", session |-> s, objectType |-> objectType,
                at |-> now, before |-> toolRegistry,
                result |-> validateObjectAccess(toolRegistry, s, objectType, now)]
    /\ UNCHANGED sessionManager

NextObjects ==
    \/ \E config \in ObjectConfigs("s1") : CreateSession(config)
    \/ \E s \in Sessions, objectType \in ObjectTypes : ValidateObjectAccess(s, objectType)
    \/ EndSession("s1")
    \/ \E d \in TickSteps : Tick(d)

SpecObjects == Init /\ [][NextObjects]_vars

\* The members of an optional list; none when the list is absent.
ObjectsOf(list) == IF IsSome(list) THEN { Get(list)[i] : i \in 1..Len(Get(list)) } ELSE {}

\* What the claim says validateObjectAccess answers at time t.
ObjectAllowed(reg, s, objectType, t) ==
    IF Lapsed(reg, s, t) THEN TRUE
    ELSE /\ objectType \notin ObjectsOf(Get(reg.sessionPermissions[s]).deniedObjects)
         /\ ObjectsOf(Get(reg.sessionPermissions[s]).allowedObjects) # {} =>
                objectType \in ObjectsOf(Get(reg.sessionPermissions[s]).allowedObjects)

\* C40: Object access for missing sessions.  For a session id that is unknown,
\* ended or expired, validateObjectAccess returns allowed = true for every object
\* type while validateToolAccess returns allowed = false; for a live session an
\* object type is allowed exactly when it is not in deniedObjects and, when
\* allowedObjects is not empty, it is in allowedObjects: deny goes before allow.
C40_ObjectAccess ==
    /\ \A s \in Sessions, objectType \in ObjectTypes :
           /\ validateObjectAccess(toolRegistry, s, objectType, now).allowed
                  = ObjectAllowed(toolRegistry, s, objectType, now)
           /\ Lapsed(toolRegistry, s, now) =>
                  \A i \in 1..Len(ALL_TOOLS) :
                      ~validateToolAccess(toolRegistry, s, ALL_TOOLS[i].id, now).allowed
    /\ last.op = "validateObjectAccess" =>
           last.result.allowed
               = ObjectAllowed(last.before, last.session, last.objectType, last.at)

\* A session that denied custWidget while it was live is past its expiry and is
\* asked about custWidget: allowed.
C40_Witness ==
    /\ last.op = "validateObjectAccess"
    /\ last.objectType = custWidget
    /\ PastExpiry(last.before, last.session, last.at)
    /\ custWidget \in ObjectsOf(Get(last.before.sessionPermissions[last.session]).deniedObjects)
    /\ last.result.allowed
    /\ ~validateToolAccess(last.before, last.session, "list_records", last.at).allowed

\* A live session lists custWidget as allowed and as denied: refused.
C40_WitnessDenyFirst ==
    /\ last.op = "validateObjectAccess"
    /\ last.objectType = custWidget
    /\ ~Lapsed(last.before, last.session, last.at)
    /\ custWidget \in ObjectsOf(Get(last.before.sessionPermissions[last.session]).allowedObjects)
    /\ custWidget \in ObjectsOf(Get(last.before.sessionPermissions[last.session]).deniedObjects)
    /\ ~last.result.allowed

\* A live session with an empty list of allowed types: every type is allowed.
C40_WitnessEmptyAllowed ==
    /\ last.op = "validateObjectAccess"
    /\ ~Lapsed(last.before, last.session, last.at)
    /\ Get(last.before.sessionPermissions[last.session]).allowedObjects = Some(<< >>)
    /\ last.result.allowed

\* A live session that allows projects alone is refused custWidget.
C40_WitnessNotAllowed ==
    /\ last.op = "validateObjectAccess"
    /\ last.objectType = custWidget
    /\ ~Lapsed(last.before, last.session, last.at)
    /\ Get(last.before.sessionPermissions[last.session]).allowedObjects = Some(<<projects>>)
    /\ ~last.result.allowed

\* A session that was ended after it denied custWidget: allowed.
C40_WitnessEnded ==
    /\ last.op = "endSession"
    /\ IsSome(last.before.sessionPermissions[last.session])
    /\ ~validateObjectAccess(last.before, last.session, custWidget, last.at).allowed
    /\ validateObjectAccess(toolRegistry, last.session, custWidget, now).allowed

====
